---------------------------- MODULE Spec2Model ----------------------------
(***************************************************************************)
(* A model of the llm-simulator: the unary call ChatCompletion, the        *)
(* server stream ChatCompletionStream and the SSE stream                   *)
(* serveChatCompletionSSE, with the output synthesizer, the token          *)
(* estimator and the error injector they share.                            *)
(*                                                                         *)
(* A Go string is a sequence of bytes.  A byte is written as a one         *)
(* character string when it is ASCII and as "<XX>" (its hex value) when it *)
(* is part of a multi-byte UTF-8 sequence.                                 *)
(***************************************************************************)
EXTENDS Integers, Sequences, FiniteSets, TLC

(***************************************************************************)
(* Bytes, runes and the strings package                                    *)
(***************************************************************************)

\* Lead bytes of two and three byte sequences, and continuation bytes, of
\* the runes the model's inputs use: e-acute C3 A9, the ellipsis E2 80 A6
\* and the replacement character EF BF BD.
Lead2 == {"<C3>"}
Lead3 == {"<E2>", "<EF>"}
Cont == {"<A9>", "<80>", "<A6>", "<BF>", "<BD>"}

Ellipsis == << "<E2>", "<80>", "<A6>" >>
RuneError == << "<EF>", "<BF>", "<BD>" >>

IsASCII(b) == b \notin (Lead2 \cup Lead3 \cup Cont)

\* The width of the valid UTF-8 sequence that starts at s[i], 0 when s[i]
\* starts none (utf8.DecodeRuneInString reports RuneError, width 1).
ValidWidth(s, i) ==
  IF IsASCII(s[i]) THEN 1
  ELSE IF s[i] \in Lead2 /\ i + 1 <= Len(s) /\ s[i + 1] \in Cont THEN 2
  ELSE IF s[i] \in Lead3 /\ i + 2 <= Len(s) /\ s[i + 1] \in Cont /\ s[i + 2] \in Cont THEN 3
  ELSE 0

\* s[i] is a continuation byte of a valid sequence that starts before it.
\* A lead byte is never a continuation byte, so decoding from the left
\* always starts a rune at a lead byte.
Consumed(s, i) ==
  \/ i >= 2 /\ ValidWidth(s, i - 1) >= 2
  \/ i >= 3 /\ ValidWidth(s, i - 2) = 3

\* len([]rune(s)): every valid sequence is one rune and every other byte
\* is one rune (the replacement character).
RuneCount(s) == Cardinality({i \in 1..Len(s) : ~Consumed(s, i)})

\* s[i] is a byte no valid sequence holds.
InvalidByte(s, i) == ValidWidth(s, i) = 0 /\ ~Consumed(s, i)

ValidUTF8(s) == \A i \in 1..Len(s) : ~InvalidByte(s, i)

RECURSIVE CoerceFrom(_, _)
CoerceFrom(s, i) ==
  IF i > Len(s) THEN << >>
  ELSE (IF InvalidByte(s, i) THEN RuneError ELSE << s[i] >>) \o CoerceFrom(s, i + 1)

\* The string a JSON decoder reads back from json.Marshal's encoding of s:
\* the escapes decode to the bytes they stand for, and every invalid byte
\* was replaced by the replacement character.
JSONString(s) == CoerceFrom(s, 1)

\* string([]rune(s)[:n]): the first n runes of s, invalid bytes re-encoded
\* as the replacement character.
RECURSIVE RunePrefixFrom(_, _, _)
RunePrefixFrom(s, i, n) ==
  IF n = 0 \/ i > Len(s) THEN << >>
  ELSE IF ValidWidth(s, i) = 0 THEN RuneError \o RunePrefixFrom(s, i + 1, n - 1)
  ELSE SubSeq(s, i, i + ValidWidth(s, i) - 1)
         \o RunePrefixFrom(s, i + ValidWidth(s, i), n - 1)

Space == {" ", "\t", "\n", "\r"}

TrimSpace(s) ==
  LET keep == {i \in 1..Len(s) : s[i] \notin Space}
  IN IF keep = {} THEN << >>
     ELSE SubSeq(s, CHOOSE i \in keep : \A j \in keep : i <= j,
                    CHOOSE i \in keep : \A j \in keep : i >= j)

UpperCase ==
  << "A", "B", "C", "D", "E", "F", "G", "H", "I", "J", "K", "L", "M",
     "N", "O", "P", "Q", "R", "S", "T", "U", "V", "W", "X", "Y", "Z" >>
LowerCase ==
  << "a", "b", "c", "d", "e", "f", "g", "h", "i", "j", "k", "l", "m",
     "n", "o", "p", "q", "r", "s", "t", "u", "v", "w", "x", "y", "z" >>

LowerByte(b) ==
  IF \E k \in 1..Len(UpperCase) : UpperCase[k] = b
    THEN LowerCase[CHOOSE k \in 1..Len(UpperCase) : UpperCase[k] = b]
    ELSE b

ToLower(s) == [i \in 1..Len(s) |-> LowerByte(s[i])]

\* The two hex digits strconv.Quote writes after \x for an invalid byte.
HexDigits(b) ==
  CASE b = "<C3>" -> << "c", "3" >>
    [] b = "<A9>" -> << "a", "9" >>
    [] b = "<E2>" -> << "e", "2" >>
    [] b = "<80>" -> << "8", "0" >>
    [] b = "<A6>" -> << "a", "6" >>
    [] b = "<EF>" -> << "e", "f" >>
    [] b = "<BF>" -> << "b", "f" >>
    [] b = "<BD>" -> << "b", "d" >>
    [] OTHER -> << "0", "0" >>

QuoteByte(s, i) ==
  CASE s[i] = "\"" -> << "\\", "\"" >>
    [] s[i] = "\\" -> << "\\", "\\" >>
    [] s[i] = "\n" -> << "\\", "n" >>
    [] s[i] = "\r" -> << "\\", "r" >>
    [] s[i] = "\t" -> << "\\", "t" >>
    [] InvalidByte(s, i) -> << "\\", "x" >> \o HexDigits(s[i])
    [] OTHER -> << s[i] >>

RECURSIVE QuoteFrom(_, _)
QuoteFrom(s, i) ==
  IF i > Len(s) THEN << >> ELSE QuoteByte(s, i) \o QuoteFrom(s, i + 1)

\* fmt's %q verb: strconv.Quote.
Quote(s) == << "\"" >> \o QuoteFrom(s, 1) \o << "\"" >>

(***************************************************************************)
(* package mock: the output synthesizer and the token estimator            *)
(***************************************************************************)

TrimRunes == 140

trim(s, n) ==
  IF RuneCount(s) <= n THEN s ELSE RunePrefixFrom(s, 1, n) \o Ellipsis

Boilerplate ==
  << "T", "h", "i", "s", " ", "i", "s", " ", "a", " ", "s", "e", "r", "v", "e", "r",
     "-", "s", "t", "r", "e", "a", "m", "i", "n", "g", " ", "m", "o", "c", "k", " ",
     "r", "e", "s", "p", "o", "n", "s", "e", " ", "f", "o", "r", " ", "b", "e", "n",
     "c", "h", "m", "a", "r", "k", "i", "n", "g", " ", "K", "a", "f", "k", "a", "/",
     "w", "o", "r", "k", "e", "r", " ", "t", "h", "r", "o", "u", "g", "h", "p", "u",
     "t", ".", " ", "\n", "I", "t", " ", "s", "i", "m", "u", "l", "a", "t", "e", "s",
     " ", "l", "a", "t", "e", "n", "c", "y", ",", " ", "e", "r", "r", "o", "r", "s",
     ",", " ", "a", "n", "d", " ", "c", "h", "u", "n", "k", "e", "d", " ", "d", "e",
     "l", "t", "a", "s", ".", " ", "\n" >>

MockToken ==
  << "[", "m", "o", "c", "k", "-", "t", "o", "k", "e", "n", "]", " " >>

AnswerHead ==
  << "M", "o", "c", "k", " ", "a", "n", "s", "w", "e", "r", " ", "f", "o", "r", ":",
     " " >>

DefaultTarget == 512
StrictDefaultTokens == 128
CharsPerToken == 4
MinTarget == 64
DefaultCap == 4096

\* A target that is capped first and raised to the floor last.
OutputTargetFloorLast(maxTokens, strictTokenMode, debugChars, maxChars) ==
  LET t0 == IF debugChars = 0 THEN DefaultTarget ELSE debugChars
      t1 == IF strictTokenMode
              THEN (IF maxTokens <= 0 THEN StrictDefaultTokens ELSE maxTokens) * CharsPerToken
              ELSE t0
      cap == IF maxChars = 0 THEN DefaultCap ELSE maxChars
      t2 == IF cap > 0 /\ t1 > cap THEN cap ELSE t1
  IN IF t2 < MinTarget THEN MinTarget ELSE t2

\* A target that ignores the cap.
OutputTargetUncapped(maxTokens, strictTokenMode, debugChars, maxChars) ==
  LET t0 == IF debugChars = 0 THEN DefaultTarget ELSE debugChars
      t1 == IF strictTokenMode
              THEN (IF maxTokens <= 0 THEN StrictDefaultTokens ELSE maxTokens) * CharsPerToken
              ELSE t0
  IN IF t1 < MinTarget THEN MinTarget ELSE t1

\* A target without the floor of 64.
OutputTargetUnfloored(maxTokens, strictTokenMode, debugChars, maxChars) ==
  LET t0 == IF debugChars = 0 THEN DefaultTarget ELSE debugChars
      t1 == IF strictTokenMode
              THEN (IF maxTokens <= 0 THEN StrictDefaultTokens ELSE maxTokens) * CharsPerToken
              ELSE t0
      cap == IF maxChars = 0 THEN DefaultCap ELSE maxChars
  IN IF cap > 0 /\ t1 > cap THEN cap ELSE t1

\* The length BuildOutput cuts its text to.
OutputTarget(maxTokens, strictTokenMode, debugChars, maxChars) ==
  LET t0 == IF debugChars = 0 THEN DefaultTarget ELSE debugChars
      t1 == IF strictTokenMode
              THEN (IF maxTokens <= 0 THEN StrictDefaultTokens ELSE maxTokens) * CharsPerToken
              ELSE t0
      t2 == IF t1 < MinTarget THEN MinTarget ELSE t1
      cap == IF maxChars = 0 THEN DefaultCap ELSE maxChars
  IN IF cap > 0 /\ t2 > cap THEN cap ELSE t2

\* for len(s) < target { s += "[mock-token] " }: the loop runs until the
\* length reaches the target, which takes n rounds, and leaves s followed
\* by n copies of the token.
AppendTokens(s, target) ==
  LET w == Len(MockToken)
      n == IF Len(s) < target THEN (target - Len(s) + w - 1) \div w ELSE 0
  IN s \o [k \in 1..(n * w) |-> MockToken[((k - 1) % w) + 1]]

\* An output that is cut one byte before the target.
BuildOutputOneShort(prompt, maxTokens, echoPrompt, strictTokenMode, debugChars, maxChars) ==
  LET target == OutputTarget(maxTokens, strictTokenMode, debugChars, maxChars)
      prefix == IF echoPrompt
                  THEN AnswerHead \o Quote(trim(prompt, TrimRunes)) \o << "\n", "\n" >>
                  ELSE << >>
  IN SubSeq(AppendTokens(prefix \o Boilerplate, target), 1, target - 1)

BuildOutput(prompt, maxTokens, echoPrompt, strictTokenMode, debugChars, maxChars) ==
  LET target == OutputTarget(maxTokens, strictTokenMode, debugChars, maxChars)
      prefix == IF echoPrompt
                  THEN AnswerHead \o Quote(trim(prompt, TrimRunes)) \o << "\n", "\n" >>
                  ELSE << >>
  IN SubSeq(AppendTokens(prefix \o Boilerplate, target), 1, target)

\* An estimate that rounds down.
ApproxTokensFloor(s) ==
  IF s = << >> THEN 0 ELSE RuneCount(s) \div 4

ApproxTokens(s) ==
  IF s = << >> THEN 0 ELSE (RuneCount(s) + 3) \div 4

(***************************************************************************)
(* The shared random generator (package mock): the values one call may     *)
(* return, and the record of a call in the log of draws.                   *)
(***************************************************************************)

\* The values of rand.Float64, in hundredths: one in each bucket of
\* pickTargetTokens and on each side of an error rate of one half.
FloatDraws == {0, 50, 60, 95, 99}

\* mock.RandIntn(n): 0 without a draw when n <= 0, else a draw from [0, n).
RandIntn(n) == IF n <= 0 THEN {0} ELSE 0..(n - 1)

IntnLog(n, v) == IF n <= 0 THEN << >> ELSE << [fn |-> "Intn", n |-> n, v |-> v] >>

\* mock.RandFloat64 when the code reaches the call, and the log entry.
RandFloat64(called) == IF called THEN FloatDraws ELSE {0}

FloatLog(called, v) == IF called THEN << [fn |-> "Float64", n |-> 0, v |-> v] >> ELSE << >>

(***************************************************************************)
(* package grpc: the helpers of the service                                *)
(***************************************************************************)

defaultInt(v, def) == IF v = 0 THEN def ELSE v

\* shouldFail: rate and the draw r are in hundredths.
FailDrawn(rate) == rate > 0 /\ rate < 100

\* shouldFail with the two shortcuts taking each other's answer.
shouldFailSwapped(rate, r) ==
  IF rate <= 0 THEN TRUE
  ELSE IF rate >= 100 THEN FALSE
  ELSE r < rate

shouldFail(rate, r) ==
  IF rate <= 0 THEN FALSE
  ELSE IF rate >= 100 THEN TRUE
  ELSE r < rate

RateLimitModes ==
  { << "4", "2", "9" >>,
    << "r", "e", "s", "o", "u", "r", "c", "e", "_", "e", "x", "h", "a", "u", "s", "t", "e", "d" >>,
    << "r", "a", "t", "e", "_", "l", "i", "m", "i", "t" >>,
    << "r", "a", "t", "e", " ", "l", "i", "m", "i", "t" >> }

InternalModes ==
  { << "5", "0", "0" >>,
    << "i", "n", "t", "e", "r", "n", "a", "l" >>,
    << "s", "e", "r", "v", "e", "r", "_", "e", "r", "r", "o", "r" >> }

\* A normalization that keeps the spaces around the mode.
NormalModeUntrimmed(mode) == ToLower(mode)

NormalMode(mode) == ToLower(TrimSpace(mode))

\* The argument of the RandIntn call pickGrpcErrorCode makes, 0 when it
\* makes none.
CodeDrawN(mode) ==
  IF NormalMode(mode) \in RateLimitModes \cup InternalModes THEN 0 ELSE 2

pickGrpcErrorCode(mode, v) ==
  IF NormalMode(mode) \in RateLimitModes THEN "ResourceExhausted"
  ELSE IF NormalMode(mode) \in InternalModes THEN "Internal"
  ELSE IF v = 0 THEN "ResourceExhausted" ELSE "Internal"

\* err.Error() of the errors a call can end with.
ErrText(e) ==
  CASE e = "ResourceExhausted" -> "rpc error: code = ResourceExhausted desc = mock error"
    [] e = "Internal" -> "rpc error: code = Internal desc = mock error"
    [] e = "Canceled" -> "context canceled"
    [] e = "DeadlineExceeded" -> "context deadline exceeded"
    [] OTHER -> "send failed"

\* int32(float64(maxTokens) * f) for the fraction f = pct / 100.
FracTokens(maxTokens, pct) == (maxTokens * pct) \div 100

\* The cumulative bucket thresholds of pickTargetTokens, in hundredths:
\* pShort, pShort+pNormal, pShort+pNormal+pLong.
BucketBounds(promptRunes) ==
  IF promptRunes > 1200 THEN << 48, 88, 98 >>
  ELSE IF promptRunes > 600 THEN << 52, 90, 99 >>
  ELSE << 58, 92, 99 >>

\* The fractional range (in hundredths of maxTokens) of the bucket r selects.
BucketRange(promptRunes, r) ==
  LET b == BucketBounds(promptRunes)
  IN IF r < b[1] THEN << 5, 22 >>
     ELSE IF r < b[2] THEN << 22, 62 >>
     ELSE IF r < b[3] THEN << 62, 92 >>
     ELSE << 92, 100 >>

\* A lower bound that is not raised to 1.
pickFracMinUnfloored(maxTokens, rng) == FracTokens(maxTokens, rng[1])

pickFracMin(maxTokens, rng) ==
  IF FracTokens(maxTokens, rng[1]) < 1 THEN 1 ELSE FracTokens(maxTokens, rng[1])

pickFracMax(maxTokens, rng) ==
  IF FracTokens(maxTokens, rng[2]) < pickFracMin(maxTokens, rng)
    THEN pickFracMin(maxTokens, rng)
    ELSE FracTokens(maxTokens, rng[2])

PickMaxTokens(maxTokens) == IF maxTokens <= 0 THEN StrictDefaultTokens ELSE maxTokens

\* The argument of pickFrac's RandIntn call, 0 when maxT = minT (no call).
TargetDrawN(maxTokens, promptRunes, r) ==
  LET m == PickMaxTokens(maxTokens)
      rng == BucketRange(promptRunes, r)
  IN IF pickFracMax(m, rng) = pickFracMin(m, rng) THEN 0
     ELSE pickFracMax(m, rng) - pickFracMin(m, rng) + 1

pickTargetTokens(maxTokens, promptRunes, r, v) ==
  LET m == PickMaxTokens(maxTokens)
      rng == BucketRange(promptRunes, r)
  IN pickFracMin(m, rng) + v

baseDelayMs(c) == defaultInt(c.BaseDelayMs, 0)

JitterDrawN(c) == IF defaultInt(c.JitterMs, 0) <= 0 THEN 0 ELSE defaultInt(c.JitterMs, 0) + 1

jitterMs(c, v) == IF defaultInt(c.JitterMs, 0) <= 0 THEN 0 ELSE v

perTokenDelayMs(c) == defaultInt(c.PerTokenDelayMs, 0)

tokensPerSec(c) == defaultInt(c.TokensPerSec, 0)

\* ttftMs after its substitutions: the bounds min and max it draws between.
ttftBounds(c) ==
  LET min0 == defaultInt(c.TTFTMinMs, 0)
      max0 == defaultInt(c.TTFTMaxMs, 0)
      min1 == IF min0 <= 0 THEN max0 ELSE min0
      max1 == IF max0 <= 0 THEN min1 ELSE max0
  IN << min1, IF max1 < min1 THEN min1 ELSE max1 >>

TTFTDrawN(c) ==
  IF defaultInt(c.TTFTMinMs, 0) <= 0 /\ defaultInt(c.TTFTMaxMs, 0) <= 0 THEN 0
  ELSE IF ttftBounds(c)[2] = ttftBounds(c)[1] THEN 0
  ELSE ttftBounds(c)[2] - ttftBounds(c)[1] + 1

ttftMs(c, v) ==
  IF defaultInt(c.TTFTMinMs, 0) <= 0 /\ defaultInt(c.TTFTMaxMs, 0) <= 0 THEN 0
  ELSE ttftBounds(c)[1] + v

\* The tokens a chunk counts for in the pacing: at least one.
PaceTokens(delta) == IF ApproxTokens(delta) < 1 THEN 1 ELSE ApproxTokens(delta)

GapDrawN(c) ==
  LET min == defaultInt(c.StreamDelayMinMs, 0)
      max0 == defaultInt(c.StreamDelayMaxMs, 0)
      max == IF max0 < min THEN min ELSE max0
  IN IF max0 > 0 /\ max > min THEN max - min + 1 ELSE 0

\* The milliseconds sleepStreamGap sleeps for after the chunk delta.
sleepStreamGap(c, delta, v) ==
  LET min == defaultInt(c.StreamDelayMinMs, 0)
      max0 == defaultInt(c.StreamDelayMaxMs, 0)
      jit == IF max0 > 0 THEN min + v ELSE 0
      tps == tokensPerSec(c)
      msPerTok == IF 1000 \div tps < 1 THEN 1 ELSE 1000 \div tps
      gen == IF tps > 0 THEN PaceTokens(delta) * msPerTok ELSE 0
      per == defaultInt(c.PerTokenDelayMs, 0)
      over == IF per > 0 THEN per * PaceTokens(delta) ELSE 0
  IN jit + gen + over

\* An SSE gap whose milliseconds per token are not raised to 1.
sleepSSEStreamGapUnfloored(c, delta, v) ==
  LET min == defaultInt(c.StreamDelayMinMs, 0)
      max0 == defaultInt(c.StreamDelayMaxMs, 0)
      jit == IF max0 > 0 THEN min + v ELSE 0
      tps == defaultInt(c.TokensPerSec, 0)
      gen == IF tps > 0 THEN PaceTokens(delta) * (1000 \div tps) ELSE 0
      per == defaultInt(c.PerTokenDelayMs, 0)
      over == IF per > 0 THEN per * PaceTokens(delta) ELSE 0
  IN jit + gen + over

\* The milliseconds sleepSSEStreamGap sleeps for after the chunk delta.
sleepSSEStreamGap(c, delta, v) ==
  LET min == defaultInt(c.StreamDelayMinMs, 0)
      max0 == defaultInt(c.StreamDelayMaxMs, 0)
      jit == IF max0 > 0 THEN min + v ELSE 0
      tps == defaultInt(c.TokensPerSec, 0)
      msPerTok == IF 1000 \div tps < 1 THEN 1 ELSE 1000 \div tps
      gen == IF tps > 0 THEN PaceTokens(delta) * msPerTok ELSE 0
      per == defaultInt(c.PerTokenDelayMs, 0)
      over == IF per > 0 THEN per * PaceTokens(delta) ELSE 0
  IN jit + gen + over

RECURSIVE ContextText(_, _)
ContextText(msgs, k) ==
  IF k > Len(msgs) THEN << >>
  ELSE LET role == TrimSpace(msgs[k].Role)
           content == TrimSpace(msgs[k].Content)
           part == IF role = << >> /\ content = << >> THEN << >>
                   ELSE << "[" >>
                          \o (IF role = << >> THEN << "u", "n", "k", "n", "o", "w", "n" >> ELSE role)
                          \o << "]", "\n" >> \o content \o << "\n", "\n" >>
       IN part \o ContextText(msgs, k + 1)

buildPromptForTokens(r) ==
  LET sp == TrimSpace(r.SystemPrompt)
      up == TrimSpace(r.UserPrompt)
  IN (IF sp # << >>
        THEN << "[", "s", "y", "s", "t", "e", "m", "]", "\n" >> \o sp \o << "\n", "\n" >>
        ELSE << >>)
     \o ContextText(r.Context, 1)
     \o (IF up # << >> THEN << "[", "u", "s", "e", "r", "]", "\n" >> \o up ELSE << >>)

DefaultTokensFallback == 128
DefaultChunkSize == 12

\* A budget that takes the request's max_tokens as it comes.
RequestTokensNoDefault(c, r) == r.MaxTokens

\* The token budget both RPCs start from: the request's, or the configured
\* default when the request's is not positive.
RequestTokens(c, r) ==
  IF r.MaxTokens <= 0 THEN defaultInt(c.DefaultTokens, DefaultTokensFallback) ELSE r.MaxTokens

\* A chunk size that may move by half of itself.
ChunkJitterHalf(size) == IF size \div 2 < 1 THEN 1 ELSE size \div 2

\* chunkSize / 3, at least 1: how far the randomized chunk size may move.
ChunkJitter(size) == IF size \div 3 < 1 THEN 1 ELSE size \div 3

\* The argument of the RandIntn call that randomizes the chunk size, 0 when
\* there is no call.
ChunkDrawN(c, size) == IF c.Randomize /\ size > 1 THEN ChunkJitter(size) * 2 + 1 ELSE 0

RandomChunkSize(c, size, v) ==
  IF c.Randomize /\ size > 1
    THEN (IF (size - ChunkJitter(size)) + v < 1 THEN 1 ELSE (size - ChunkJitter(size)) + v)
    ELSE size

\* ChatCompletionStream's chunk size before randomization.
StreamChunkSize(c) ==
  IF defaultInt(c.ChunkSize, DefaultChunkSize) <= 0
    THEN DefaultChunkSize
    ELSE defaultInt(c.ChunkSize, DefaultChunkSize)

\* serveChatCompletionSSE's chunk size before randomization.
SSEChunkSize(c, size) == defaultInt(size, defaultInt(c.ChunkSize, DefaultChunkSize))

\* A slice that stops one byte short of its end.
SliceShort(text, i, size) ==
  SubSeq(text, i + 1, (IF i + size > Len(text) THEN Len(text) ELSE i + size) - 1)

\* out[i:end] with end = min(i + size, len(out)), i counted from 0.
Slice(text, i, size) ==
  SubSeq(text, i + 1, IF i + size > Len(text) THEN Len(text) ELSE i + size)

(***************************************************************************)
(* The inputs of a call: the configuration, and the request (of the two    *)
(* RPCs) or the query parameters (of the SSE handler).                     *)
(***************************************************************************)

Hi == << "h", "i" >>
EAcute == << "<C3>", "<A9>" >>

Modes ==
  { << "4", "2", "9" >>,
    << " ", "4", "2", "9", "\n" >>,
    << "R", "A", "T", "E", " ", "L", "I", "M", "I", "T" >>,
    << "R", "a", "t", "e", "_", "L", "i", "m", "i", "t" >>,
    << "r", "e", "s", "o", "u", "r", "c", "e", "_", "e", "x", "h", "a", "u", "s", "t", "e", "d" >>,
    << "5", "0", "0" >>,
    << "\t", "I", "n", "t", "e", "r", "n", "a", "l", " " >>,
    << "S", "E", "R", "V", "E", "R", "_", "E", "R", "R", "O", "R" >>,
    << "m", "i", "x", "e", "d" >>,
    << "4", " ", "2", "9" >>,
    << >> }

ZeroCfg ==
  [ BaseDelayMs |-> 0, JitterMs |-> 0, PerTokenDelayMs |-> 0,
    ErrorRate |-> 0, ErrorMode |-> << "m", "i", "x", "e", "d" >>,
    DefaultTokens |-> 0, ChunkSize |-> 0,
    StreamDelayMinMs |-> 0, StreamDelayMaxMs |-> 0,
    EchoPrompt |-> FALSE, Randomize |-> FALSE,
    TTFTMinMs |-> 0, TTFTMaxMs |-> 0, TokensPerSec |-> 0,
    DebugOutputChars |-> 0, MaxOutputChars |-> 0, StrictTokenMode |-> FALSE ]

\* The longest output of the configurations that bound it, and their chunk size.
SmallOutput == 5
SmallChunk == 2

SmallCfg == [ZeroCfg EXCEPT !.MaxOutputChars = SmallOutput, !.ChunkSize = SmallChunk]

ReqHi == [SystemPrompt |-> << >>, Context |-> << >>, UserPrompt |-> Hi, MaxTokens |-> 12]

ReqAccent == [SystemPrompt |-> << >>, Context |-> << >>, UserPrompt |-> EAcute, MaxTokens |-> 12]

ReqFull ==
  [ SystemPrompt |-> << " ", "s", "\n" >>,
    Context |-> << [Role |-> << >>, Content |-> << "c" >>],
                   [Role |-> << " " >>, Content |-> << >>],
                   [Role |-> << "a" >>, Content |-> << " ", "b", "\"" >>] >>,
    UserPrompt |-> << " ", "<C3>", "<A9>", " " >>,
    MaxTokens |-> 0 ]

ReqEmpty == [SystemPrompt |-> << >>, Context |-> << >>, UserPrompt |-> << >>, MaxTokens |-> -1]

ReqTokens(n) == [ReqHi EXCEPT !.MaxTokens = n]

\* A query parameter that is absent (or not a number), or present.
None == [has |-> FALSE, v |-> 0]
Some(n) == [has |-> TRUE, v |-> n]

NoQuery == [prompt |-> << >>, max_tokens |-> None, chunk_size |-> None]

Query(p, t, c) == [prompt |-> p, max_tokens |-> t, chunk_size |-> c]

NoReq == ReqEmpty

\* Error injection: every rate with every mode.
ErrCfgs ==
  {[SmallCfg EXCEPT !.ErrorRate = e, !.ErrorMode = m] : e \in {50, 100, 200}, m \in Modes}
    \cup {[SmallCfg EXCEPT !.ErrorRate = e] : e \in {-10, 0}}

\* Output sizing: the knobs of BuildOutput.
SizeCfgs ==
  {[ZeroCfg EXCEPT !.StrictTokenMode = st, !.DebugOutputChars = d, !.MaxOutputChars = mc,
                   !.EchoPrompt = ep, !.ChunkSize = 48] :
     st \in BOOLEAN, d \in {0, 70}, mc \in {0, -1, 3, 66}, ep \in BOOLEAN}

TokenCfgs ==
  {[ZeroCfg EXCEPT !.StrictTokenMode = TRUE, !.DefaultTokens = dt, !.ChunkSize = 48] :
     dt \in {0, 17, -2}}

\* Chunking: the chunk sizes against short outputs.
ChunkCfgs ==
  {[ZeroCfg EXCEPT !.MaxOutputChars = mc, !.ChunkSize = cs] :
     mc \in {1, SmallOutput, 7}, cs \in {0, -3, 1, 2, 3, 7, 100}}

\* Chunks that cut the two bytes of a rune of the echoed prompt apart.
EchoCfgs ==
  {[ZeroCfg EXCEPT !.EchoPrompt = TRUE, !.StrictTokenMode = TRUE, !.ChunkSize = cs] :
     cs \in {9, 19}}

\* Randomization of the token budget and of the chunk size.
RandCfgs ==
  {[ZeroCfg EXCEPT !.Randomize = TRUE, !.MaxOutputChars = SmallOutput, !.ChunkSize = cs] :
     cs \in {0, 1, 2, 3, 7}}
    \cup {[ZeroCfg EXCEPT !.Randomize = TRUE, !.StrictTokenMode = TRUE, !.MaxOutputChars = 70]}

\* Timing: each group of knobs on its own, with a two chunk output.
TinyCfg == [ZeroCfg EXCEPT !.MaxOutputChars = 3, !.ChunkSize = SmallChunk]

TimingCfgs ==
  {[TinyCfg EXCEPT !.BaseDelayMs = b, !.JitterMs = j] : b \in {0, 2, -1}, j \in {0, 1, -1}}
    \cup {[TinyCfg EXCEPT !.TTFTMinMs = a, !.TTFTMaxMs = b] : a \in {0, 1, 2}, b \in {-1, 0, 1, 2}}
    \cup {[TinyCfg EXCEPT !.StreamDelayMinMs = a, !.StreamDelayMaxMs = b] :
            a \in {-1, 0, 1, 2}, b \in {0, 1, 2}}
    \cup {[TinyCfg EXCEPT !.TokensPerSec = t, !.PerTokenDelayMs = p] :
            t \in {0, 400, 2000, -5}, p \in {0, 1, -1}}

GrpcInputs ==
  {[cfg |-> c, req |-> ReqHi] : c \in ErrCfgs \cup ChunkCfgs \cup TimingCfgs}
    \cup {[cfg |-> c, req |-> r] : c \in SizeCfgs \cup TokenCfgs, r \in {ReqHi, ReqFull, ReqEmpty}}
    \cup {[cfg |-> c, req |-> r] : c \in EchoCfgs, r \in {ReqAccent, ReqFull}}
    \cup {[cfg |-> c, req |-> r] : c \in RandCfgs, r \in {ReqTokens(2), ReqTokens(19)}}

SSEInputs ==
  {[cfg |-> c, query |-> Query(Hi, Some(12), None)] : c \in ChunkCfgs \cup TimingCfgs}
    \cup {[cfg |-> c, query |-> Query(p, t, s)] :
            c \in {SmallCfg, [SmallCfg EXCEPT !.ErrorRate = 100],
                   [SmallCfg EXCEPT !.StrictTokenMode = TRUE, !.DefaultTokens = 17,
                                    !.MaxOutputChars = 70, !.ChunkSize = 48]},
            p \in {<< >>, Hi}, t \in {None, Some(0), Some(-1), Some(16)},
            s \in {None, Some(0), Some(-3), Some(3)}}
    \cup {[cfg |-> c, query |-> Query(p, Some(12), None)] :
            c \in EchoCfgs, p \in {EAcute, buildPromptForTokens(ReqAccent)}}
    \cup {[cfg |-> c, query |-> Query(Hi, Some(2), None)] : c \in RandCfgs}

Kinds == {"unary", "stream", "sse"}

(***************************************************************************)
(* The state of one call                                                   *)
(***************************************************************************)

VARIABLES
  kind,     \* which entry point is called
  cfg,      \* the service's configuration
  req,      \* the request of ChatCompletion and ChatCompletionStream
  query,    \* the query parameters of the SSE handler
  ctxErr,   \* ctx.Err(): "nil" until the context is cancelled or times out
  ctxDoneAt, \* where the call was suspended when the context was cancelled
  pc,       \* where the call is suspended
  loc,      \* the call's local variables
  sent,     \* the messages passed to stream.Send, each with Send's result
  written,  \* the events written to the HTTP response, each with the flush's result
  ret,      \* what the call returned
  now,      \* the monotonic clock, in milliseconds
  draws,    \* the calls made to the shared random generator, in order
  rngMu     \* the generator's mutex: 0 when unlocked, else the caller that locked it

vars ==
  << kind, cfg, req, query, ctxErr, ctxDoneAt, pc, loc, sent, written, ret, now, draws, rngMu >>

NoResp ==
  [ set |-> FALSE, OutputText |-> << >>, FinishReason |-> "", PromptTokens |-> 0,
    CompletionTokens |-> 0, TotalTokens |-> 0, LatencyMs |-> 0 ]

NoReturn == [err |-> "nil", resp |-> NoResp]

ZeroLoc ==
  [ start |-> 0, maxTokens |-> 0, effTokens |-> 0, prompt |-> << >>, chunkSize |-> 0,
    out |-> << >>, pt |-> 0, ct |-> 0, i |-> 0, err |-> "nil", sleepMs |-> 0, id |-> << >> ]

Init ==
  /\ kind \in Kinds
  /\ \/ /\ kind \in {"unary", "stream"}
        /\ \E in \in GrpcInputs : cfg = in.cfg /\ req = in.req
        /\ query = NoQuery
     \/ /\ kind = "sse"
        /\ \E in \in SSEInputs : cfg = in.cfg /\ query = in.query
        /\ req = NoReq
  /\ ctxErr = "nil"
  /\ ctxDoneAt = ""
  /\ pc = "start"
  /\ loc = ZeroLoc
  /\ sent = << >>
  /\ written = << >>
  /\ ret = NoReturn
  /\ now = 0
  /\ draws = << >>
  /\ rngMu = 0

\* The context of the call is cancelled, or its deadline passes.
Cancel ==
  /\ pc # "returned"
  /\ ctxErr = "nil"
  /\ ctxErr' \in {"Canceled", "DeadlineExceeded"}
  /\ ctxDoneAt' = pc
  /\ UNCHANGED << rngMu, kind, cfg, req, query, pc, loc, sent, written, ret, now, draws >>

\* What a call of stream.Send, or a flush of the response, can return.
SendResults == {"nil", "SendErr"}

Pending(m) == [msg |-> m, res |-> "pending"]

\* The log of messages once the call in progress has returned res.
Acked(log, res) ==
  [k \in 1..Len(log) |-> IF log[k].res = "pending" THEN [log[k] EXCEPT !.res = res] ELSE log[k]]

\* sleepWithContext(ctx, d) with d > 0 returns when the timer fires, or
\* earlier when the context is done: the clock values it can return at.
WakeTimes(d) ==
  {now + d} \cup (IF ctxErr # "nil" THEN {now + e : e \in 0..d} ELSE {})

(***************************************************************************)
(* ChatCompletionStream                                                    *)
(***************************************************************************)

DeltaChunk(text) ==
  [ Type |-> "output_text.delta", Text |-> text, Index |-> 0, FinishReason |-> "",
    PromptTokens |-> 0, CompletionTokens |-> 0, TotalTokens |-> 0, LatencyMs |-> 0 ]

DoneChunk(pt, ct, latency) ==
  [ Type |-> "output_text.done", Text |-> << >>, Index |-> 0, FinishReason |-> "stop",
    PromptTokens |-> pt, CompletionTokens |-> ct, TotalTokens |-> pt + ct,
    LatencyMs |-> latency ]

\* A failed chunk that does not say why.
FailedChunkNoReason(e) ==
  [ Type |-> "failed", Text |-> << >>, Index |-> 0, FinishReason |-> "",
    PromptTokens |-> 0, CompletionTokens |-> 0, TotalTokens |-> 0, LatencyMs |-> 0 ]

FailedChunk(e) ==
  [ Type |-> "failed", Text |-> << >>, Index |-> 0, FinishReason |-> ErrText(e),
    PromptTokens |-> 0, CompletionTokens |-> 0, TotalTokens |-> 0, LatencyMs |-> 0 ]

\* A finalizer that reports injected failures only.
FinalizerSendsInjected(e) == e \in {"ResourceExhausted", "Internal"}

\* A finalizer that runs its Send on every return, the successful one too.
FinalizerSendsAlways(e) == TRUE

\* A finalizer that stays silent when the context is done.
FinalizerSkipsCancel(e) == e \notin {"nil", "Canceled", "DeadlineExceeded"}

\* A finalizer that stays silent after a failed Send.
FinalizerSkipsSendError(e) == e \notin {"nil", "SendErr"}

\* The deferred function's condition for sending the failed chunk.
FinalizerSends(e) == e # "nil"

\* `return e` with e # nil: the deferred function passes the failed chunk
\* to Send.  s is the log of Send calls so far, l the locals.
StreamReturn(s, l, e) ==
  /\ loc' = [l EXCEPT !.err = e]
  /\ IF FinalizerSends(e)
       THEN sent' = Append(s, Pending(FailedChunk(e))) /\ pc' = "send_failed" /\ ret' = ret
       ELSE sent' = s /\ pc' = "returned" /\ ret' = [err |-> e, resp |-> NoResp]

\* A chunk loop whose head does not look at the context.
StreamLoopUnchecked(s, l, t) ==
  IF l.i < Len(l.out)
    THEN /\ loc' = l
         /\ sent' = Append(s, Pending(DeltaChunk(Slice(l.out, l.i, l.chunkSize))))
         /\ pc' = "send_chunk"
         /\ ret' = ret
    ELSE /\ loc' = l
         /\ sent' = Append(s, Pending(DoneChunk(l.pt, l.ct, t - l.start)))
         /\ pc' = "send_done"
         /\ ret' = ret

\* The head of the chunk loop with the locals l at the time t: the check of
\* ctx.Done(), then the Send of the next chunk; after the last chunk, the
\* Send of the done chunk.
StreamLoop(s, l, t) ==
  IF l.i < Len(l.out)
    THEN IF ctxErr # "nil"
           THEN StreamReturn(s, l, ctxErr)
           ELSE /\ loc' = l
                /\ sent' = Append(s, Pending(DeltaChunk(Slice(l.out, l.i, l.chunkSize))))
                /\ pc' = "send_chunk"
                /\ ret' = ret
    ELSE /\ loc' = l
         /\ sent' = Append(s, Pending(DoneChunk(l.pt, l.ct, t - l.start)))
         /\ pc' = "send_done"
         /\ ret' = ret

\* From the end of the pre-delay to the first Send: the prompt, the token
\* budget, the chunk size and the output.
StreamGenerate(l, t, log) ==
  LET prompt == buildPromptForTokens(req)
      size == StreamChunkSize(cfg)
  IN \E r \in RandFloat64(cfg.Randomize) :
       \E v \in RandIntn(IF cfg.Randomize
                          THEN TargetDrawN(l.maxTokens, RuneCount(prompt), r) ELSE 0) :
         \E w \in RandIntn(ChunkDrawN(cfg, size)) :
           LET eff == IF cfg.Randomize
                        THEN pickTargetTokens(l.maxTokens, RuneCount(prompt), r, v)
                        ELSE l.maxTokens
               out == BuildOutput(prompt, eff, cfg.EchoPrompt, cfg.StrictTokenMode,
                                  cfg.DebugOutputChars, cfg.MaxOutputChars)
           IN /\ draws' = log \o FloatLog(cfg.Randomize, r)
                              \o IntnLog(IF cfg.Randomize
                                           THEN TargetDrawN(l.maxTokens, RuneCount(prompt), r)
                                           ELSE 0, v)
                              \o IntnLog(ChunkDrawN(cfg, size), w)
              /\ StreamLoop(sent, [l EXCEPT !.prompt = prompt, !.effTokens = eff,
                                            !.chunkSize = RandomChunkSize(cfg, size, w),
                                            !.out = out, !.pt = ApproxTokens(prompt),
                                            !.ct = ApproxTokens(out), !.i = 0], t)

\* The delay before the first token.
PreDelay(c, j, f) == baseDelayMs(c) + jitterMs(c, j) + ttftMs(c, f)

\* A beginning that looks at the context before it decides on the injection.
StreamBeginContextFirst ==
  /\ kind = "stream"
  /\ pc = "start"
  /\ IF ctxErr # "nil"
       THEN StreamReturn(sent, [loc EXCEPT !.start = now], ctxErr) /\ draws' = draws
       ELSE \E r \in RandFloat64(FailDrawn(cfg.ErrorRate)) :
              IF shouldFail(cfg.ErrorRate, r)
                THEN \E d \in RandIntn(CodeDrawN(cfg.ErrorMode)) :
                       /\ draws' = draws \o FloatLog(FailDrawn(cfg.ErrorRate), r)
                                         \o IntnLog(CodeDrawN(cfg.ErrorMode), d)
                       /\ StreamReturn(sent, [loc EXCEPT !.start = now],
                                       pickGrpcErrorCode(cfg.ErrorMode, d))
                ELSE \E j \in RandIntn(JitterDrawN(cfg)) :
                       \E f \in RandIntn(TTFTDrawN(cfg)) :
                         LET l == [loc EXCEPT !.start = now, !.maxTokens = RequestTokens(cfg, req)]
                             log == draws \o FloatLog(FailDrawn(cfg.ErrorRate), r)
                                          \o IntnLog(JitterDrawN(cfg), j)
                                          \o IntnLog(TTFTDrawN(cfg), f)
                         IN IF PreDelay(cfg, j, f) > 0
                              THEN /\ loc' = [l EXCEPT !.sleepMs = PreDelay(cfg, j, f)]
                                   /\ pc' = "pre_delay"
                                   /\ draws' = log
                                   /\ UNCHANGED << sent, ret >>
                              ELSE StreamGenerate(l, now, log)
  /\ UNCHANGED << rngMu, kind, cfg, req, query, ctxErr, ctxDoneAt, written, now >>

\* From the call to the first suspension: error injection, then the
\* pre-delay, and when there is none, on to the first Send.
StreamBegin ==
  /\ kind = "stream"
  /\ pc = "start"
  /\ \E r \in RandFloat64(FailDrawn(cfg.ErrorRate)) :
       IF shouldFail(cfg.ErrorRate, r)
         THEN \E d \in RandIntn(CodeDrawN(cfg.ErrorMode)) :
                /\ draws' = draws \o FloatLog(FailDrawn(cfg.ErrorRate), r)
                                  \o IntnLog(CodeDrawN(cfg.ErrorMode), d)
                /\ StreamReturn(sent, [loc EXCEPT !.start = now],
                                pickGrpcErrorCode(cfg.ErrorMode, d))
         ELSE \E j \in RandIntn(JitterDrawN(cfg)) :
                \E f \in RandIntn(TTFTDrawN(cfg)) :
                  LET l == [loc EXCEPT !.start = now, !.maxTokens = RequestTokens(cfg, req)]
                      log == draws \o FloatLog(FailDrawn(cfg.ErrorRate), r)
                                   \o IntnLog(JitterDrawN(cfg), j)
                                   \o IntnLog(TTFTDrawN(cfg), f)
                  IN IF PreDelay(cfg, j, f) > 0
                       THEN /\ loc' = [l EXCEPT !.sleepMs = PreDelay(cfg, j, f)]
                            /\ pc' = "pre_delay"
                            /\ draws' = log
                            /\ UNCHANGED << sent, ret >>
                       ELSE StreamGenerate(l, now, log)
  /\ UNCHANGED << rngMu, kind, cfg, req, query, ctxErr, ctxDoneAt, written, now >>

\* The pre-delay ends: ctx.Err() is checked, then the stream goes on.
PreDelayDone ==
  /\ kind = "stream"
  /\ pc = "pre_delay"
  /\ \E t \in WakeTimes(loc.sleepMs) :
       /\ now' = t
       /\ IF ctxErr # "nil"
            THEN StreamReturn(sent, loc, ctxErr) /\ draws' = draws
            ELSE StreamGenerate(loc, t, draws)
  /\ UNCHANGED << rngMu, kind, cfg, req, query, ctxErr, ctxDoneAt, written >>

\* A loop that goes on after the gap without a look at the context.
StreamAfterGapUnchecked(s, l, t) ==
  StreamLoop(s, [l EXCEPT !.i = l.i + l.chunkSize], t)

\* A loop that steps one byte too far after every chunk.
StreamAfterGapSkipping(s, l, t) ==
  IF ctxErr # "nil"
    THEN StreamReturn(s, l, ctxErr)
    ELSE StreamLoop(s, [l EXCEPT !.i = l.i + l.chunkSize + 1], t)

\* After sleepStreamGap: ctx.Err() is checked, then i += chunkSize.
StreamAfterGap(s, l, t) ==
  IF ctxErr # "nil"
    THEN StreamReturn(s, l, ctxErr)
    ELSE StreamLoop(s, [l EXCEPT !.i = l.i + l.chunkSize], t)

\* The Send of a content chunk returns.
ChunkSent ==
  /\ kind = "stream"
  /\ pc = "send_chunk"
  /\ \E res \in SendResults :
       IF res # "nil"
         THEN StreamReturn(Acked(sent, res), loc, res) /\ draws' = draws
         ELSE \E v \in RandIntn(GapDrawN(cfg)) :
                LET ms == sleepStreamGap(cfg, Slice(loc.out, loc.i, loc.chunkSize), v)
                IN /\ draws' = draws \o IntnLog(GapDrawN(cfg), v)
                   /\ IF ms > 0
                        THEN /\ loc' = [loc EXCEPT !.sleepMs = ms]
                             /\ sent' = Acked(sent, res)
                             /\ pc' = "gap"
                             /\ ret' = ret
                        ELSE StreamAfterGap(Acked(sent, res), loc, now)
  /\ UNCHANGED << rngMu, kind, cfg, req, query, ctxErr, ctxDoneAt, written, now >>

\* The sleep between two chunks ends.
GapDone ==
  /\ kind = "stream"
  /\ pc = "gap"
  /\ \E t \in WakeTimes(loc.sleepMs) :
       /\ now' = t
       /\ StreamAfterGap(sent, loc, t)
  /\ UNCHANGED << rngMu, kind, cfg, req, query, ctxErr, ctxDoneAt, written, draws >>

\* The Send of the done chunk returns.
DoneSent ==
  /\ kind = "stream"
  /\ pc = "send_done"
  /\ \E res \in SendResults : StreamReturn(Acked(sent, res), loc, res)
  /\ UNCHANGED << rngMu, kind, cfg, req, query, ctxErr, ctxDoneAt, written, now, draws >>

\* The Send of the failed chunk returns (its result is dropped), and the
\* call returns the error it ended with.
FailedSent ==
  /\ kind = "stream"
  /\ pc = "send_failed"
  /\ \E res \in SendResults : sent' = Acked(sent, res)
  /\ pc' = "returned"
  /\ ret' = [err |-> loc.err, resp |-> NoResp]
  /\ UNCHANGED << rngMu, kind, cfg, req, query, ctxErr, ctxDoneAt, loc, written, now, draws >>

(***************************************************************************)
(* ChatCompletion                                                          *)
(***************************************************************************)

\* The simulated latency of the unary call for ct completion tokens.
ComputeMs(c, ct, j, f) ==
  baseDelayMs(c) + jitterMs(c, j) + ttftMs(c, f) + perTokenDelayMs(c) * ct
    + (IF tokensPerSec(c) > 0 THEN (ct * 1000) \div tokensPerSec(c) ELSE 0)

\* The latency the response reports: time.Since(start) at the time t.
Latency(start, t) == t - start

\* A response whose total leaves the prompt's tokens out.
UnaryResponseNoPromptTokens(l, t) ==
  [ set |-> TRUE, OutputText |-> l.out, FinishReason |-> "stop",
    PromptTokens |-> l.pt, CompletionTokens |-> l.ct, TotalTokens |-> l.ct,
    LatencyMs |-> Latency(l.start, t) ]

UnaryResponse(l, t) ==
  [ set |-> TRUE, OutputText |-> l.out, FinishReason |-> "stop",
    PromptTokens |-> l.pt, CompletionTokens |-> l.ct, TotalTokens |-> l.pt + l.ct,
    LatencyMs |-> Latency(l.start, t) ]

\* A return that hands out the response once the whole delay has elapsed,
\* whatever the context says.
UnaryFinishAfterFullDelay(l, t) ==
  /\ pc' = "returned"
  /\ ret' = IF ctxErr # "nil" /\ t < l.start + l.sleepMs
              THEN [err |-> ctxErr, resp |-> NoResp]
              ELSE [err |-> "nil", resp |-> UnaryResponse(l, t)]

\* After the compute delay: ctx.Err() is checked, then the response is built.
UnaryFinish(l, t) ==
  /\ pc' = "returned"
  /\ ret' = IF ctxErr # "nil"
              THEN [err |-> ctxErr, resp |-> NoResp]
              ELSE [err |-> "nil", resp |-> UnaryResponse(l, t)]

UnaryBegin ==
  /\ kind = "unary"
  /\ pc = "start"
  /\ \E r \in RandFloat64(FailDrawn(cfg.ErrorRate)) :
       IF shouldFail(cfg.ErrorRate, r)
         THEN \E d \in RandIntn(CodeDrawN(cfg.ErrorMode)) :
                /\ draws' = draws \o FloatLog(FailDrawn(cfg.ErrorRate), r)
                                  \o IntnLog(CodeDrawN(cfg.ErrorMode), d)
                /\ loc' = [loc EXCEPT !.start = now]
                /\ pc' = "returned"
                /\ ret' = [err |-> pickGrpcErrorCode(cfg.ErrorMode, d), resp |-> NoResp]
         ELSE LET maxTokens == RequestTokens(cfg, req)
                  prompt == buildPromptForTokens(req)
              IN \E q \in RandFloat64(cfg.Randomize) :
                   \E v \in RandIntn(IF cfg.Randomize
                                      THEN TargetDrawN(maxTokens, RuneCount(prompt), q) ELSE 0) :
                     \E j \in RandIntn(JitterDrawN(cfg)) :
                       \E f \in RandIntn(TTFTDrawN(cfg)) :
                         LET eff == IF cfg.Randomize
                                      THEN pickTargetTokens(maxTokens, RuneCount(prompt), q, v)
                                      ELSE maxTokens
                             out == BuildOutput(prompt, eff, cfg.EchoPrompt, cfg.StrictTokenMode,
                                                cfg.DebugOutputChars, cfg.MaxOutputChars)
                             ms == ComputeMs(cfg, ApproxTokens(out), j, f)
                             l == [loc EXCEPT !.start = now, !.maxTokens = maxTokens,
                                              !.effTokens = eff, !.prompt = prompt, !.out = out,
                                              !.pt = ApproxTokens(prompt),
                                              !.ct = ApproxTokens(out),
                                              !.sleepMs = IF ms > 0 THEN ms ELSE 0]
                         IN /\ draws' = draws \o FloatLog(FailDrawn(cfg.ErrorRate), r)
                                              \o FloatLog(cfg.Randomize, q)
                                              \o IntnLog(IF cfg.Randomize
                                                           THEN TargetDrawN(maxTokens, RuneCount(prompt), q)
                                                           ELSE 0, v)
                                              \o IntnLog(JitterDrawN(cfg), j)
                                              \o IntnLog(TTFTDrawN(cfg), f)
                            /\ loc' = l
                            /\ IF ms > 0
                                 THEN pc' = "compute_delay" /\ ret' = ret
                                 ELSE UnaryFinish(l, now)
  /\ UNCHANGED << rngMu, kind, cfg, req, query, ctxErr, ctxDoneAt, sent, written, now >>

\* The compute delay ends.
UnaryDelayDone ==
  /\ kind = "unary"
  /\ pc = "compute_delay"
  /\ \E t \in WakeTimes(loc.sleepMs) :
       /\ now' = t
       /\ UnaryFinish(loc, t)
  /\ UNCHANGED << rngMu, kind, cfg, req, query, ctxErr, ctxDoneAt, loc, sent, written, draws >>

(***************************************************************************)
(* ChatCompletionSSEHandler and serveChatCompletionSSE                     *)
(***************************************************************************)

Letters ==
  << "a", "b", "c", "d", "e", "f", "g", "h", "i", "j", "k", "l", "m",
     "n", "o", "p", "q", "r", "s", "t", "u", "v", "w", "x", "y", "z",
     "0", "1", "2", "3", "4", "5", "6", "7", "8", "9" >>

IDLen == 10

\* The draws of RandID the model follows: the same letter ten times, and
\* two letters taking turns.
IDDraws ==
  { [k \in 1..IDLen |-> 0],
    [k \in 1..IDLen |-> IF k % 2 = 1 THEN 25 ELSE Len(Letters) - 1] }

RandID(vs) == [k \in 1..IDLen |-> Letters[vs[k] + 1]]

IDLog(vs) == [k \in 1..IDLen |-> [fn |-> "Intn", n |-> Len(Letters), v |-> vs[k]]]

IDPrefix ==
  << "c", "h", "a", "t", "c", "m", "p", "l", "_", "m", "o", "c", "k", "_" >>

\* A mock.StreamChunk with its one choice, as a JSON decoder reads it back.
SSEChunk(id, role, content, finish) ==
  [data |-> "chunk", id |-> id, role |-> role, content |-> JSONString(content),
   finish |-> finish]

SSESentinel == [data |-> "[DONE]", id |-> << >>, role |-> "", content |-> << >>, finish |-> "null"]

\* The handler returns: e is "nil", or "400" (http.Error), or "panic".
SSEReturn(w, l, e) ==
  /\ written' = w
  /\ loc' = l
  /\ pc' = "returned"
  /\ ret' = [err |-> e, resp |-> NoResp]

\* The head of the content loop: the check of the request context, then
\* the write of the next chunk (content[i:end] panics when end < i); after
\* the last chunk, the write of the stop event and of the sentinel.
SSELoop(w, l) ==
  IF l.i < Len(l.out)
    THEN IF ctxErr # "nil"
           THEN SSEReturn(w, l, "nil")
           ELSE IF l.chunkSize < 0
                  THEN SSEReturn(w, l, "panic")
                  ELSE /\ written' = Append(w, Pending(SSEChunk(l.id, "",
                                                  Slice(l.out, l.i, l.chunkSize), "null")))
                       /\ loc' = l
                       /\ pc' = "write_chunk"
                       /\ ret' = ret
    ELSE /\ written' = w \o << Pending(SSEChunk(l.id, "", << >>, "stop")), Pending(SSESentinel) >>
         /\ loc' = l
         /\ pc' = "write_done"
         /\ ret' = ret

\* The handler reads the query, and serveChatCompletionSSE runs to the
\* write of the role event.
SSEBegin ==
  /\ kind = "sse"
  /\ pc = "start"
  /\ IF query.prompt = << >>
       THEN SSEReturn(written, loc, "400") /\ draws' = draws
       ELSE LET maxTokens == IF query.max_tokens.has THEN query.max_tokens.v
                             ELSE cfg.DefaultTokens
                size == SSEChunkSize(cfg, IF query.chunk_size.has THEN query.chunk_size.v
                                          ELSE cfg.ChunkSize)
            IN \E vs \in IDDraws :
                 \E w \in RandIntn(ChunkDrawN(cfg, size)) :
                   LET l == [loc EXCEPT !.start = now, !.maxTokens = maxTokens,
                                        !.effTokens = maxTokens, !.prompt = query.prompt,
                                        !.id = IDPrefix \o RandID(vs),
                                        !.chunkSize = RandomChunkSize(cfg, size, w),
                                        !.out = BuildOutput(query.prompt, maxTokens,
                                                            cfg.EchoPrompt, cfg.StrictTokenMode,
                                                            cfg.DebugOutputChars,
                                                            cfg.MaxOutputChars),
                                        !.i = 0]
                   IN /\ draws' = draws \o IDLog(vs) \o IntnLog(ChunkDrawN(cfg, size), w)
                      /\ loc' = l
                      /\ written' = << Pending(SSEChunk(l.id, "assistant", << >>, "null")) >>
                      /\ pc' = "write_role"
                      /\ ret' = ret
  /\ UNCHANGED << rngMu, kind, cfg, req, query, ctxErr, ctxDoneAt, sent, now >>

\* The write and flush of the role event return.
RoleWritten ==
  /\ kind = "sse"
  /\ pc = "write_role"
  /\ \E res \in SendResults :
       IF res # "nil"
         THEN SSEReturn(Acked(written, res), loc, "nil")
         ELSE SSELoop(Acked(written, res), loc)
  /\ UNCHANGED << rngMu, kind, cfg, req, query, ctxErr, ctxDoneAt, sent, now, draws >>

\* The write and flush of a content chunk return; then sleepSSEStreamGap.
ChunkWritten ==
  /\ kind = "sse"
  /\ pc = "write_chunk"
  /\ \E res \in SendResults :
       IF res # "nil"
         THEN SSEReturn(Acked(written, res), loc, "nil") /\ draws' = draws
         ELSE \E v \in RandIntn(GapDrawN(cfg)) :
                LET ms == sleepSSEStreamGap(cfg, Slice(loc.out, loc.i, loc.chunkSize), v)
                IN /\ draws' = draws \o IntnLog(GapDrawN(cfg), v)
                   /\ IF ms > 0
                        THEN /\ loc' = [loc EXCEPT !.sleepMs = ms]
                             /\ written' = Acked(written, res)
                             /\ pc' = "sse_gap"
                             /\ ret' = ret
                        ELSE SSELoop(Acked(written, res),
                                     [loc EXCEPT !.i = loc.i + loc.chunkSize])
  /\ UNCHANGED << rngMu, kind, cfg, req, query, ctxErr, ctxDoneAt, sent, now >>

\* The sleep between two SSE chunks ends; the loop goes on with i += chunkSize.
SSEGapDone ==
  /\ kind = "sse"
  /\ pc = "sse_gap"
  /\ \E t \in WakeTimes(loc.sleepMs) : now' = t
  /\ SSELoop(written, [loc EXCEPT !.i = loc.i + loc.chunkSize])
  /\ UNCHANGED << rngMu, kind, cfg, req, query, ctxErr, ctxDoneAt, sent, draws >>

\* The flush of the stop event and the sentinel returns.
DoneWritten ==
  /\ kind = "sse"
  /\ pc = "write_done"
  /\ \E res \in SendResults : SSEReturn(Acked(written, res), loc, "nil")
  /\ UNCHANGED << rngMu, kind, cfg, req, query, ctxErr, ctxDoneAt, sent, now, draws >>

(***************************************************************************)
(* The specification                                                       *)
(***************************************************************************)

\* The steps of ChatCompletionStream.
StreamStep ==
  \/ StreamBegin
  \/ PreDelayDone
  \/ ChunkSent
  \/ GapDone
  \/ DoneSent
  \/ FailedSent

\* The steps of the call itself (everything but the cancellation).
Step ==
  \/ StreamStep
  \/ UnaryBegin
  \/ UnaryDelayDone
  \/ SSEBegin
  \/ RoleWritten
  \/ ChunkWritten
  \/ SSEGapDone
  \/ DoneWritten

Next == Cancel \/ Step

Spec == Init /\ [][Next]_vars

\* The calls of ChatCompletionStream the progress of the stream is checked
\* on: those with a bounded output, and of the randomized ones those with
\* the smallest token budget.
StreamInputs ==
  {in \in GrpcInputs :
     \/ in.cfg \in ErrCfgs \cup ChunkCfgs \cup TimingCfgs
     \/ in.cfg \in RandCfgs /\ in.req = ReqTokens(2) /\ in.cfg.ChunkSize \in {2, 3}}

StreamInit ==
  /\ Init
  /\ kind = "stream"
  /\ [cfg |-> cfg, req |-> req] \in StreamInputs

StreamNext == Cancel \/ StreamStep

\* Every Send and every timer returns (sleepWithContext returns when its
\* timer fires or the context is done): a stream that can take a step does.
FairStreamSpec == StreamInit /\ [][StreamNext]_vars /\ WF_vars(StreamStep)

(***************************************************************************)
(* The output synthesizer and the token estimator on their own: one call   *)
(* of mock.BuildOutput, and of mock.ApproxTokens on its argument and on    *)
(* its result.                                                             *)
(***************************************************************************)

SynthPrompts == {<< >>, Hi, EAcute}

\* The arguments maxTokens, debugChars and maxChars: below, at and above
\* the values BuildOutput compares them with.
SynthTokens == {-1, 0, 1, 15, 16, 17, 1100}

SynthDebugChars == {-5, 0, 1, 70, 600}

SynthMaxChars == {-1, 0, 3, 64, 66, 700}

SynthCfgs ==
  {[ZeroCfg EXCEPT !.StrictTokenMode = st, !.EchoPrompt = ep, !.DebugOutputChars = d,
                   !.MaxOutputChars = mc] :
     st \in BOOLEAN, ep \in BOOLEAN, d \in SynthDebugChars, mc \in SynthMaxChars}

SynthInit ==
  /\ kind = "synth"
  /\ cfg \in SynthCfgs
  /\ \E p \in SynthPrompts, t \in SynthTokens :
       loc = [ZeroLoc EXCEPT !.prompt = p, !.maxTokens = t, !.effTokens = t]
  /\ req = NoReq
  /\ query = NoQuery
  /\ ctxErr = "nil"
  /\ ctxDoneAt = ""
  /\ pc = "start"
  /\ sent = << >>
  /\ written = << >>
  /\ ret = NoReturn
  /\ now = 0
  /\ draws = << >>
  /\ rngMu = 0

\* out := mock.BuildOutput(prompt, maxTokens, ...), with the token counts
\* of the prompt and of the output.
Synthesize ==
  /\ kind = "synth"
  /\ pc = "start"
  /\ LET out == BuildOutput(loc.prompt, loc.maxTokens, cfg.EchoPrompt, cfg.StrictTokenMode,
                            cfg.DebugOutputChars, cfg.MaxOutputChars)
     IN loc' = [loc EXCEPT !.out = out, !.pt = ApproxTokens(loc.prompt),
                           !.ct = ApproxTokens(out)]
  /\ pc' = "returned"
  /\ UNCHANGED << rngMu, kind, cfg, req, query, ctxErr, ctxDoneAt, sent, written, ret, now, draws >>

SynthNext == Synthesize

SynthSpec == SynthInit /\ [][SynthNext]_vars

(***************************************************************************)
(* pickTargetTokens on its own: one call, with its two draws.              *)
(***************************************************************************)

\* The argument maxTokens: none, and budgets whose bucket bounds fall below
\* 1, on each other, and apart.
PickBudgets == {-1, 0, 1, 2, 4, 5, 19, 20, 50, 128}

\* The argument promptRunes: on each side of the two thresholds.
PickPromptRunes == {0, 600, 601, 1200, 1201}

PickInit ==
  /\ kind = "pick"
  /\ cfg = ZeroCfg
  /\ \E m \in PickBudgets, n \in PickPromptRunes :
       loc = [maxTokens |-> m, promptRunes |-> n, effTokens |-> 0]
  /\ req = NoReq
  /\ query = NoQuery
  /\ ctxErr = "nil"
  /\ ctxDoneAt = ""
  /\ pc = "start"
  /\ sent = << >>
  /\ written = << >>
  /\ ret = NoReturn
  /\ now = 0
  /\ draws = << >>
  /\ rngMu = 0

\* effTokens := pickTargetTokens(maxTokens, promptRunes): the draw that
\* selects the bucket, then the draw within the bucket's bounds.
PickTarget ==
  /\ kind = "pick"
  /\ pc = "start"
  /\ \E r \in RandFloat64(TRUE) :
       \E v \in RandIntn(TargetDrawN(loc.maxTokens, loc.promptRunes, r)) :
         /\ loc' = [loc EXCEPT !.effTokens = pickTargetTokens(loc.maxTokens, loc.promptRunes, r, v)]
         /\ draws' = FloatLog(TRUE, r)
                       \o IntnLog(TargetDrawN(loc.maxTokens, loc.promptRunes, r), v)
  /\ pc' = "returned"
  /\ UNCHANGED << rngMu, kind, cfg, req, query, ctxErr, ctxDoneAt, sent, written, ret, now >>

PickNext == PickTarget

PickSpec == PickInit /\ [][PickNext]_vars

(***************************************************************************)
(* The shared generator under concurrent calls: several handlers run at    *)
(* once, and each of them, between its calls of mock.RandIntn and          *)
(* mock.RandFloat64, sleeps in sleepWithContext and waits in Send.  Here    *)
(* pc and loc hold one position and one record of locals per handler.      *)
(***************************************************************************)

NCallers == 2

Callers == 1..NCallers

\* The arguments of RandIntn: negative, zero, and a range of two values.
IntnArgs == {-1, 0, 2}

\* The locals of a generator call: the function, its argument, its result,
\* and whether the call has locked rngMu.
NoCall == [fn |-> "", n |-> 0, v |-> 0, locked |-> FALSE]

RngInit ==
  /\ kind = "rng"
  /\ cfg = ZeroCfg
  /\ req = NoReq
  /\ query = NoQuery
  /\ ctxErr = "nil"
  /\ ctxDoneAt = ""
  /\ pc = [c \in Callers |-> "run"]
  /\ loc = [c \in Callers |-> NoCall]
  /\ sent = << >>
  /\ written = << >>
  /\ ret = NoReturn
  /\ now = 0
  /\ draws = << >>
  /\ rngMu = 0

\* RandIntn(n) is called: with n <= 0 it returns 0 at once, else it goes to
\* rngMu.Lock().
CallRandIntn(c) ==
  /\ pc[c] = "run"
  /\ \E n \in IntnArgs :
       IF n <= 0
         THEN /\ loc' = [loc EXCEPT ![c] = [fn |-> "Intn", n |-> n, v |-> 0, locked |-> FALSE]]
              /\ pc' = pc
         ELSE /\ loc' = [loc EXCEPT ![c] = [fn |-> "Intn", n |-> n, v |-> 0, locked |-> FALSE]]
              /\ pc' = [pc EXCEPT ![c] = "lock"]
  /\ UNCHANGED << rngMu, kind, cfg, req, query, ctxErr, ctxDoneAt, sent, written, ret, now, draws >>

\* RandFloat64() is called and goes to rngMu.Lock().
CallRandFloat64(c) ==
  /\ pc[c] = "run"
  /\ loc' = [loc EXCEPT ![c] = [fn |-> "Float64", n |-> 0, v |-> 0, locked |-> FALSE]]
  /\ pc' = [pc EXCEPT ![c] = "lock"]
  /\ UNCHANGED << rngMu, kind, cfg, req, query, ctxErr, ctxDoneAt, sent, written, ret, now, draws >>

\* A Lock that does not wait for the mutex to be free.
LockUnguarded(c) ==
  /\ pc[c] = "lock"
  /\ rngMu' = c
  /\ loc' = [loc EXCEPT ![c].locked = TRUE]
  /\ pc' = [pc EXCEPT ![c] = "draw"]
  /\ UNCHANGED << kind, cfg, req, query, ctxErr, ctxDoneAt, sent, written, ret, now, draws >>

\* rngMu.Lock() returns: the mutex was free and is now the caller's.
Lock(c) ==
  /\ pc[c] = "lock"
  /\ rngMu = 0
  /\ rngMu' = c
  /\ loc' = [loc EXCEPT ![c].locked = TRUE]
  /\ pc' = [pc EXCEPT ![c] = "draw"]
  /\ UNCHANGED << kind, cfg, req, query, ctxErr, ctxDoneAt, sent, written, ret, now, draws >>

\* rng.Intn(n) or rng.Float64() inside the generator.
Draw(c) ==
  /\ pc[c] = "draw"
  /\ \E v \in (IF loc[c].fn = "Intn" THEN RandIntn(loc[c].n) ELSE RandFloat64(TRUE)) :
       loc' = [loc EXCEPT ![c].v = v]
  /\ pc' = [pc EXCEPT ![c] = "unlock"]
  /\ UNCHANGED << rngMu, kind, cfg, req, query, ctxErr, ctxDoneAt, sent, written, ret, now, draws >>

\* The deferred rngMu.Unlock(), and the return to the handler.
Unlock(c) ==
  /\ pc[c] = "unlock"
  /\ rngMu' = 0
  /\ pc' = [pc EXCEPT ![c] = "run"]
  /\ UNCHANGED << kind, cfg, req, query, ctxErr, ctxDoneAt, loc, sent, written, ret, now, draws >>

\* The handler is suspended in sleepWithContext, and wakes up.
BeginSleep(c) ==
  /\ pc[c] = "run"
  /\ pc' = [pc EXCEPT ![c] = "sleep"]
  /\ UNCHANGED << rngMu, kind, cfg, req, query, ctxErr, ctxDoneAt, loc, sent, written, ret, now, draws >>

EndSleep(c) ==
  /\ pc[c] = "sleep"
  /\ pc' = [pc EXCEPT ![c] = "run"]
  /\ UNCHANGED << rngMu, kind, cfg, req, query, ctxErr, ctxDoneAt, loc, sent, written, ret, now, draws >>

\* The handler is inside stream.Send (or a write to the response), and
\* Send returns.
BeginSend(c) ==
  /\ pc[c] = "run"
  /\ pc' = [pc EXCEPT ![c] = "send"]
  /\ UNCHANGED << rngMu, kind, cfg, req, query, ctxErr, ctxDoneAt, loc, sent, written, ret, now, draws >>

EndSend(c) ==
  /\ pc[c] = "send"
  /\ pc' = [pc EXCEPT ![c] = "run"]
  /\ UNCHANGED << rngMu, kind, cfg, req, query, ctxErr, ctxDoneAt, loc, sent, written, ret, now, draws >>

RngNext ==
  \E c \in Callers :
    \/ CallRandIntn(c)
    \/ CallRandFloat64(c)
    \/ Lock(c)
    \/ Draw(c)
    \/ Unlock(c)
    \/ BeginSleep(c)
    \/ EndSleep(c)
    \/ BeginSend(c)
    \/ EndSend(c)

RngSpec == RngInit /\ [][RngNext]_vars

\* A caller inside the generator goes on to the deferred Unlock, and a
\* caller waiting in Lock gets the mutex when it is free again and again
\* (sync.Mutex hands the mutex to a waiter that has waited for long).
FairRngSpec ==
  /\ RngSpec
  /\ \A c \in Callers : WF_vars(Draw(c)) /\ WF_vars(Unlock(c)) /\ SF_vars(Lock(c))

(***************************************************************************)
(* sleepWithContext on its own: one handler calls it several times, the    *)
(* clock ticks, the context is cancelled at some moment.  Its timers are    *)
(* kept in loc.timers, each with its deadline and its state.  The steps of *)
(* the function take no time: the clock ticks only when none of them can   *)
(* be taken.  loc.calls counts the calls and loc.positive those of them    *)
(* with d > 0.                                                             *)
(***************************************************************************)

MaxNow == 3

MaxSleeps == 2

\* The durations asked for, in clock ticks: negative, zero, short and long.
SleepDurations == {-1, 0, 1, 2}

SleepInit ==
  /\ kind = "sleep"
  /\ cfg = ZeroCfg
  /\ req = NoReq
  /\ query = NoQuery
  /\ ctxErr = "nil"
  /\ ctxDoneAt = ""
  /\ pc = "idle"
  /\ loc = [ calls |-> 0, positive |-> 0, d |-> 0, entered |-> 0, doneAt |-> -1,
             returnedAt |-> 0, woke |-> "", timers |-> << >> ]
  /\ sent = << >>
  /\ written = << >>
  /\ ret = NoReturn
  /\ now = 0
  /\ draws = << >>
  /\ rngMu = 0

\* sleepWithContext(ctx, d) is called: with d <= 0 it returns, else it
\* makes a timer, defers its Stop and waits in the select.
SleepCall ==
  /\ kind = "sleep"
  /\ pc = "idle"
  /\ loc.calls < MaxSleeps
  /\ \E d \in SleepDurations :
       IF d <= 0
         THEN /\ loc' = [loc EXCEPT !.calls = @ + 1, !.d = d, !.entered = now,
                                    !.returnedAt = now, !.woke = ""]
              /\ pc' = "idle"
         ELSE /\ loc' = [loc EXCEPT !.calls = @ + 1, !.positive = @ + 1, !.d = d,
                                    !.entered = now, !.woke = "",
                                    !.timers = Append(@, [deadline |-> now + d, state |-> "armed"])]
              /\ pc' = "select"
  /\ UNCHANGED << rngMu, kind, cfg, req, query, ctxErr, ctxDoneAt, sent, written, ret, now, draws >>

\* An armed timer whose time has come sends on its channel.
TimerFire ==
  /\ kind = "sleep"
  /\ \E k \in 1..Len(loc.timers) :
       /\ loc.timers[k].state = "armed"
       /\ now >= loc.timers[k].deadline
       /\ loc' = [loc EXCEPT !.timers[k].state = "fired"]
  /\ UNCHANGED << rngMu, kind, cfg, req, query, ctxErr, ctxDoneAt, pc, sent, written, ret, now, draws >>

\* A select that waits for the timer alone.
SleepWakeTimerOnly ==
  /\ kind = "sleep"
  /\ pc = "select"
  /\ loc.timers[Len(loc.timers)].state = "fired"
  /\ loc' = [loc EXCEPT !.woke = "timer"]
  /\ pc' = "stop"
  /\ UNCHANGED << rngMu, kind, cfg, req, query, ctxErr, ctxDoneAt, sent, written, ret, now, draws >>

\* The select: a case that is ready is taken, either of them when both are.
SleepWake ==
  /\ kind = "sleep"
  /\ pc = "select"
  /\ \E w \in {"ctx", "timer"} :
       /\ w = "ctx" => ctxErr # "nil"
       /\ w = "timer" => loc.timers[Len(loc.timers)].state = "fired"
       /\ loc' = [loc EXCEPT !.woke = w]
  /\ pc' = "stop"
  /\ UNCHANGED << rngMu, kind, cfg, req, query, ctxErr, ctxDoneAt, sent, written, ret, now, draws >>

\* The deferred t.Stop(), and the return.
SleepStop ==
  /\ kind = "sleep"
  /\ pc = "stop"
  /\ loc' = [loc EXCEPT !.returnedAt = now,
                        !.timers[Len(loc.timers)].state = IF @ = "armed" THEN "stopped" ELSE @]
  /\ pc' = "idle"
  /\ UNCHANGED << rngMu, kind, cfg, req, query, ctxErr, ctxDoneAt, sent, written, ret, now, draws >>

\* The context is cancelled, or its deadline passes.
SleepCancel ==
  /\ kind = "sleep"
  /\ ctxErr = "nil"
  /\ ctxErr' \in {"Canceled", "DeadlineExceeded"}
  /\ ctxDoneAt' = pc
  /\ loc' = [loc EXCEPT !.doneAt = now]
  /\ UNCHANGED << rngMu, kind, cfg, req, query, pc, sent, written, ret, now, draws >>

\* The clock ticks when no step of the function or of a timer is due.
Tick ==
  /\ kind = "sleep"
  /\ now < MaxNow
  /\ ~ENABLED (TimerFire \/ SleepWake \/ SleepStop)
  /\ now' = now + 1
  /\ UNCHANGED << rngMu, kind, cfg, req, query, ctxErr, ctxDoneAt, pc, loc, sent, written, ret, draws >>

SleepNext ==
  \/ SleepCall
  \/ TimerFire
  \/ SleepWake
  \/ SleepStop
  \/ SleepCancel
  \/ Tick

SleepSpec == SleepInit /\ [][SleepNext]_vars

(***************************************************************************)
(* What the properties below speak of                                      *)
(***************************************************************************)

IsContent(e) == e.msg.Type = "output_text.delta"

IsTerminal(e) == e.msg.Type \in {"output_text.done", "failed"}

IsContentEvent(e) == e.msg.data = "chunk" /\ e.msg.role = "" /\ e.msg.finish = "null"

RECURSIVE ConcatText(_)
ConcatText(log) ==
  IF log = << >> THEN << >> ELSE Head(log).msg.Text \o ConcatText(Tail(log))

CeilDiv(a, b) == (a + b - 1) \div b

StatusCodes == {"ResourceExhausted", "Internal"}

ContextErrors == {"Canceled", "DeadlineExceeded"}

\* The call is ChatCompletionStream and has returned.
StreamReturned == kind = "stream" /\ pc = "returned"

\* Error injection triggered in this call (of one of the two RPCs): by the
\* rate alone, or by the draw the call began with.
InjectionTriggered ==
  /\ kind \in {"unary", "stream"}
  /\ pc # "start"
  /\ \/ cfg.ErrorRate >= 100
     \/ /\ cfg.ErrorRate > 0
        /\ draws # << >>
        /\ draws[1].fn = "Float64"
        /\ draws[1].v < cfg.ErrorRate

\* C1: a stream that passes error injection, is never cancelled and whose
\* Sends all succeed sends ceil(len(output) / chunk size) content chunks,
\* whose texts concatenate to the synthesized output, and then exactly one
\* terminal event.
C1_StreamReassemblesOutput ==
  (StreamReturned /\ ~InjectionTriggered /\ ctxErr = "nil"
     /\ \A k \in 1..Len(sent) : sent[k].res = "nil")
    => LET n == CeilDiv(Len(loc.out), loc.chunkSize)
       IN /\ loc.out = BuildOutput(buildPromptForTokens(req), loc.effTokens, cfg.EchoPrompt,
                                   cfg.StrictTokenMode, cfg.DebugOutputChars,
                                   cfg.MaxOutputChars)
          /\ Len(sent) = n + 1
          /\ \A k \in 1..n : IsContent(sent[k])
          /\ ConcatText(SubSeq(sent, 1, n)) = loc.out
          /\ IsTerminal(sent[n + 1])

C1_Witness ==
  /\ StreamReturned /\ ret.err = "nil" /\ ctxErr = "nil"
  /\ Len(sent) >= 4
  /\ Len(loc.out) % loc.chunkSize # 0

\* C2: with an effective chunk size of at least 1, every content chunk the
\* gRPC stream passes to Send, and every content delta a client of the SSE
\* stream reads, is non-empty and no longer than the effective chunk size.
C2_ChunksWithinSize ==
  loc.chunkSize >= 1
    => /\ \A k \in 1..Len(sent) :
            IsContent(sent[k])
              => Len(sent[k].msg.Text) >= 1 /\ Len(sent[k].msg.Text) <= loc.chunkSize
       /\ \A k \in 1..Len(written) :
            IsContentEvent(written[k])
              => /\ Len(written[k].msg.content) >= 1
                 /\ Len(written[k].msg.content) <= loc.chunkSize

C4_OneTerminalPassed ==
  Cardinality({k \in 1..Len(sent) : IsTerminal(sent[k])}) <= 1

\* C4, amended: at most one done event and at most one failed event are
\* passed to Send; a failed event follows a done event only when the Send
\* of the done event returned an error, so Send never accepts a second
\* terminal event after an accepted done event.
C4_OneTerminalPerOutcome ==
  LET T == {k \in 1..Len(sent) : IsTerminal(sent[k])}
  IN /\ Cardinality({k \in T : sent[k].msg.Type = "output_text.done"}) <= 1
     /\ Cardinality({k \in T : sent[k].msg.Type = "failed"}) <= 1
     /\ \A j, k \in T :
          j < k => /\ sent[j].msg.Type = "output_text.done"
                   /\ sent[j].res = "SendErr"
                   /\ sent[k].msg.Type = "failed"
                   /\ k = j + 1

C4_Witness ==
  Cardinality({k \in 1..Len(sent) : IsTerminal(sent[k])}) = 2

C6_CancelDuringSend ==
  (StreamReturned /\ ctxDoneAt = "send_chunk")
    => /\ ret.err = ctxErr
       /\ \E k \in 1..Len(sent) : IsContent(sent[k])
       /\ \A k \in 1..Len(sent) : sent[k].msg.FinishReason # "stop"

\* C6, amended: the same, provided the Send during which the context was
\* cancelled returns no error (the call returns a Send error unchanged).
C6_CancelDuringSendThatSucceeds ==
  (StreamReturned /\ ctxDoneAt = "send_chunk"
     /\ \A k \in 1..Len(sent) : IsContent(sent[k]) => sent[k].res = "nil")
    => /\ ret.err = ctxErr
       /\ ret.err \in ContextErrors
       /\ \E k \in 1..Len(sent) : IsContent(sent[k])
       /\ \A k \in 1..Len(sent) : sent[k].msg.FinishReason # "stop"

C6_Witness ==
  /\ StreamReturned /\ ctxDoneAt = "send_chunk"
  /\ \A k \in 1..Len(sent) : IsContent(sent[k]) => sent[k].res = "nil"
  /\ loc.i + loc.chunkSize >= Len(loc.out)
  /\ ret.err = "Canceled"

C8_RateExtremes ==
  (kind \in {"unary", "stream"} /\ pc = "returned")
    => /\ cfg.ErrorRate >= 100
            => /\ ret.err \in StatusCodes
               /\ ~ret.resp.set
               /\ \A k \in 1..Len(sent) : ~IsContent(sent[k])
       /\ cfg.ErrorRate <= 0
            => /\ ret.err \notin StatusCodes
               /\ (ctxErr = "nil" /\ \A k \in 1..Len(sent) : sent[k].res = "nil")
                    => /\ ret.err = "nil"
                       /\ kind = "unary" => ret.resp.set
                       /\ kind = "stream" => sent[Len(sent)].msg.Type = "output_text.done"

C8_Witness ==
  /\ kind = "unary" /\ pc = "returned"
  /\ cfg.ErrorRate = 200
  /\ ret.err = "ResourceExhausted"
  /\ Len(draws) = 1

\* The spellings of the modes, as configured, that select one class.
C9_RateLimitSpellings ==
  { << "4", "2", "9" >>,
    << " ", "4", "2", "9", "\n" >>,
    << "R", "A", "T", "E", " ", "L", "I", "M", "I", "T" >>,
    << "R", "a", "t", "e", "_", "L", "i", "m", "i", "t" >>,
    << "r", "e", "s", "o", "u", "r", "c", "e", "_", "e", "x", "h", "a", "u", "s", "t", "e", "d" >> }

C9_InternalSpellings ==
  { << "5", "0", "0" >>,
    << "\t", "I", "n", "t", "e", "r", "n", "a", "l", " " >>,
    << "S", "E", "R", "V", "E", "R", "_", "E", "R", "R", "O", "R" >> }

\* The draws of the call that chose between the two classes.
C9_ClassDraws == {k \in 1..Len(draws) : draws[k].fn = "Intn"}

\* C9: the class of an injected failure follows the error mode: "429" and
\* its aliases, in any case and with spaces around, give ResourceExhausted
\* and "500" and its aliases give Internal, both without a draw; every
\* other mode ("mixed", the empty mode, an unknown one) gives one of the
\* two classes, chosen by exactly one draw.
C9_ErrorClassByMode ==
  (InjectionTriggered /\ pc = "returned")
    => /\ cfg.ErrorMode \in C9_RateLimitSpellings
            => ret.err = "ResourceExhausted" /\ C9_ClassDraws = {}
       /\ cfg.ErrorMode \in C9_InternalSpellings
            => ret.err = "Internal" /\ C9_ClassDraws = {}
       /\ cfg.ErrorMode \notin C9_RateLimitSpellings \cup C9_InternalSpellings
            => /\ Cardinality(C9_ClassDraws) = 1
               /\ \A k \in C9_ClassDraws :
                    /\ draws[k].n = 2
                    /\ ret.err = (IF draws[k].v = 0 THEN "ResourceExhausted" ELSE "Internal")

C9_Witness ==
  /\ InjectionTriggered /\ pc = "returned"
  /\ cfg.ErrorMode = << " ", "4", "2", "9", "\n" >>
  /\ ret.err = "ResourceExhausted"

\* C10: a unary call that neither fails nor is cancelled, with
\* randomization off, answers with the output BuildOutput gives for the
\* assembled prompt, the token budget (the request's when positive, else
\* the configured default) and the sizing knobs; with the finish reason
\* "stop"; with the token counts ApproxTokens gives for the prompt and the
\* output and their sum; and with a latency of at least 0.
C10_UnaryResponse ==
  (kind = "unary" /\ pc = "returned" /\ ret.err = "nil" /\ ~cfg.Randomize)
    => LET prompt == buildPromptForTokens(req)
           budget == IF req.MaxTokens > 0 THEN req.MaxTokens
                     ELSE IF cfg.DefaultTokens = 0 THEN DefaultTokensFallback
                     ELSE cfg.DefaultTokens
           r == ret.resp
       IN /\ r.set
          /\ r.OutputText = BuildOutput(prompt, budget, cfg.EchoPrompt, cfg.StrictTokenMode,
                                        cfg.DebugOutputChars, cfg.MaxOutputChars)
          /\ r.FinishReason = "stop"
          /\ r.PromptTokens = ApproxTokens(prompt)
          /\ r.CompletionTokens = ApproxTokens(r.OutputText)
          /\ r.TotalTokens = r.PromptTokens + r.CompletionTokens
          /\ r.LatencyMs >= 0

C10_Witness ==
  /\ kind = "unary" /\ pc = "returned" /\ ret.err = "nil" /\ ~cfg.Randomize
  /\ req.MaxTokens <= 0
  /\ cfg.StrictTokenMode
  /\ cfg.DefaultTokens = 17
  /\ Len(ret.resp.OutputText) = 68
  /\ ret.resp.PromptTokens > 0

\* The positions in the log of Send calls of the content chunks.
ContentAt == {k \in 1..Len(sent) : IsContent(sent[k])}

\* C11: the content chunks of a stream are sent in the order of the output:
\* the k-th one is the slice of the output that starts where the (k-1)-th
\* ended, at offset (k-1) * chunk size (no reordering, no repetition, no
\* gap), and no content chunk is sent after a done or a failed event.
C11_ChunksInOrder ==
  kind = "stream"
    => /\ \A k \in ContentAt :
            /\ \A j \in 1..(k - 1) : IsContent(sent[j])
            /\ (k - 1) * loc.chunkSize < Len(loc.out)
            /\ sent[k].msg.Text
                 = SubSeq(loc.out, (k - 1) * loc.chunkSize + 1,
                          IF k * loc.chunkSize > Len(loc.out)
                            THEN Len(loc.out) ELSE k * loc.chunkSize)
       /\ \A j, k \in 1..Len(sent) :
            (j < k /\ IsTerminal(sent[j])) => ~IsContent(sent[k])

C11_Witness ==
  /\ StreamReturned
  /\ Cardinality(ContentAt) >= 3
  /\ IsTerminal(sent[Len(sent)])
  /\ loc.chunkSize >= 2

\* The texts of the content chunks ChatCompletionStream sends, one after
\* the other, for the output out and the chunk size size.
C12_ChunkTexts(out, size) ==
  [k \in 1..CeilDiv(Len(out), size) |-> DeltaChunk(Slice(out, (k - 1) * size, size)).Text]

\* The content deltas a client has read from the SSE stream so far.
C12_SSEDeltas ==
  LET events == SelectSeq(written, IsContentEvent)
  IN [k \in 1..Len(events) |-> events[k].msg.content]

\* The texts of the content chunks passed to Send so far.
C12_GrpcDeltas ==
  LET chunks == SelectSeq(sent, IsContent)
  IN [k \in 1..Len(chunks) |-> chunks[k].msg.Text]

C12_IsPrefix(a, b) == Len(a) <= Len(b) /\ a = SubSeq(b, 1, Len(a))

\* C12: with randomization off and an error rate of 0, for the same prompt
\* text given to BuildOutput, the same positive token budget and the same
\* positive chunk size, the content deltas of the SSE stream are those of
\* the gRPC stream: the same count, the same boundaries, the same text.
C12_SSEMatchesGrpc ==
  LET same(prompt, tokens, size) ==
        C12_ChunkTexts(BuildOutput(prompt, tokens, cfg.EchoPrompt, cfg.StrictTokenMode,
                                   cfg.DebugOutputChars, cfg.MaxOutputChars), size)
  IN /\ (kind = "stream" /\ ~cfg.Randomize /\ cfg.ErrorRate = 0 /\ req.MaxTokens > 0
           /\ cfg.ChunkSize > 0)
          => /\ C12_IsPrefix(C12_GrpcDeltas,
                             same(buildPromptForTokens(req), req.MaxTokens, cfg.ChunkSize))
             /\ (pc = "returned" /\ ret.err = "nil")
                  => C12_GrpcDeltas
                       = same(buildPromptForTokens(req), req.MaxTokens, cfg.ChunkSize)
     /\ (kind = "sse" /\ ~cfg.Randomize /\ cfg.ErrorRate = 0 /\ pc # "start"
           /\ ret.err = "nil" /\ loc.maxTokens > 0 /\ loc.chunkSize > 0)
          => /\ C12_IsPrefix(C12_SSEDeltas, same(query.prompt, loc.maxTokens, loc.chunkSize))
             /\ (pc = "returned" /\ ctxErr = "nil"
                   /\ \A k \in 1..Len(written) : written[k].res = "nil")
                  => C12_SSEDeltas = same(query.prompt, loc.maxTokens, loc.chunkSize)

\* The gRPC half of C12 on its own.
C12_GrpcHalf ==
  (kind = "stream" /\ ~cfg.Randomize /\ cfg.ErrorRate = 0 /\ req.MaxTokens > 0
     /\ cfg.ChunkSize > 0)
    => C12_IsPrefix(C12_GrpcDeltas,
                    C12_ChunkTexts(BuildOutput(buildPromptForTokens(req), req.MaxTokens,
                                               cfg.EchoPrompt, cfg.StrictTokenMode,
                                               cfg.DebugOutputChars, cfg.MaxOutputChars),
                                   cfg.ChunkSize))

IsRoleEvent(e) ==
  e.msg.data = "chunk" /\ e.msg.role = "assistant" /\ e.msg.content = << >>
    /\ e.msg.finish = "null"

IsStopEvent(e) == e.msg.data = "chunk" /\ e.msg.finish = "stop"

IsSentinel(e) == e.msg.data = "[DONE]"

\* What is written to the response is, in this order, a role event, content
\* deltas, a stop event and the sentinel, or a beginning of that.
SSEOrdered ==
  /\ written # << >> => IsRoleEvent(written[1])
  /\ \A k \in 2..Len(written) :
       /\ ~IsRoleEvent(written[k])
       /\ IsSentinel(written[k])
            => k = Len(written) /\ IsStopEvent(written[k - 1])
       /\ IsStopEvent(written[k])
            => /\ k = Len(written) - 1 /\ IsSentinel(written[k + 1])
               /\ written[k].msg.content = << >> /\ written[k].msg.role = ""
       /\ (~IsSentinel(written[k]) /\ ~IsStopEvent(written[k]))
            => IsContentEvent(written[k]) /\ written[k].msg.content # << >>

\* C13: an SSE stream that is not cancelled and whose writes all succeed
\* writes exactly one role event first, then the content deltas (finish
\* reason null), then exactly one event with the finish reason "stop", then
\* the [DONE] sentinel as the last thing; nothing follows the sentinel and
\* the sentinel never comes before the stop event.
C13_SSEEventOrder ==
  (kind = "sse" /\ pc # "start" /\ ret.err # "400")
    => /\ SSEOrdered
       /\ (pc = "returned" /\ ctxErr = "nil"
             /\ \A k \in 1..Len(written) : written[k].res = "nil")
            => /\ Len(written) >= 3
               /\ IsSentinel(written[Len(written)])
               /\ Cardinality({k \in 1..Len(written) : IsStopEvent(written[k])}) = 1

\* C13 for the streams whose chunk size is positive.
C13_PositiveChunkSize ==
  (kind = "sse" /\ pc # "start" /\ ret.err # "400")
    => /\ SSEOrdered
       /\ (pc = "returned" /\ ctxErr = "nil" /\ loc.chunkSize > 0
             /\ \A k \in 1..Len(written) : written[k].res = "nil")
            => /\ Len(written) >= 3
               /\ IsSentinel(written[Len(written)])
               /\ Cardinality({k \in 1..Len(written) : IsStopEvent(written[k])}) = 1

\* BuildOutput has returned in a call of its own.
Synthesized == kind = "synth" /\ pc = "returned"

\* The ceiling of the output length: maxChars when positive, 4096 when
\* maxChars is 0, and -1 (none) when maxChars is negative.
C14_Ceiling == IF cfg.MaxOutputChars > 0 THEN cfg.MaxOutputChars
               ELSE IF cfg.MaxOutputChars = 0 THEN 4096 ELSE -1

\* The target before the ceiling: maxTokens * 4 in strict mode (128 tokens
\* when maxTokens <= 0), else debugChars when not 0, else 512; at least 64.
C14_Floored ==
  LET t == IF cfg.StrictTokenMode
             THEN (IF loc.maxTokens <= 0 THEN 128 ELSE loc.maxTokens) * 4
             ELSE IF cfg.DebugOutputChars # 0 THEN cfg.DebugOutputChars ELSE 512
  IN IF t < 64 THEN 64 ELSE t

\* C14: the byte length of BuildOutput's result is exactly the clamped
\* target: the target raised to 64, then lowered to the ceiling when there
\* is one, for every strictTokenMode, debugChars, maxTokens, maxChars,
\* echoPrompt and prompt.
C14_LengthIsClampedTarget ==
  Synthesized
    => Len(loc.out) = (IF C14_Ceiling >= 0 /\ C14_Floored > C14_Ceiling
                         THEN C14_Ceiling ELSE C14_Floored)

C14_Witness ==
  /\ Synthesized
  /\ cfg.StrictTokenMode /\ cfg.EchoPrompt
  /\ cfg.DebugOutputChars = 600
  /\ loc.maxTokens = 1100
  /\ cfg.MaxOutputChars = -1
  /\ Len(loc.out) = 4400
  /\ loc.prompt = EAcute

\* C15 as claimed: the synthesized output is at least 64 characters long
\* and at most the configured cap.
C15_FloorAndCap ==
  Synthesized
    => /\ Len(loc.out) >= 64
       /\ C14_Ceiling >= 0 => Len(loc.out) <= C14_Ceiling

\* C15, amended: the synthesized output is never longer than the cap
\* (maxChars when positive, 4096 when maxChars is 0, none when negative);
\* it is at least 64 characters long unless the cap is below 64, and then
\* it is exactly as long as the cap.
C15_FloorUnlessCapBelow ==
  Synthesized
    => /\ C14_Ceiling >= 0 => Len(loc.out) <= C14_Ceiling
       /\ (C14_Ceiling < 0 \/ C14_Ceiling >= 64) => Len(loc.out) >= 64
       /\ (C14_Ceiling >= 0 /\ C14_Ceiling < 64) => Len(loc.out) = C14_Ceiling

C15_Witness ==
  /\ Synthesized
  /\ cfg.MaxOutputChars = 3
  /\ Len(loc.out) = 3

\* C16: the content chunks ChatCompletionStream sends carry their ordinal
\* position: the indices of successive content chunks are distinct and
\* strictly increasing.
C16_IndicesIncrease ==
  kind = "stream"
    => \A j \in ContentAt : \A k \in ContentAt : j < k => sent[j].msg.Index < sent[k].msg.Index

\* What the code does instead: every chunk of every stream has index 0.
C16_IndexAlwaysZero ==
  kind = "stream" => \A k \in 1..Len(sent) : sent[k].msg.Index = 0

\* The context was cancelled while ChatCompletionStream slept between two
\* chunks: nothing but the failed chunk is passed to Send from then on.
C17_GrpcGapRechecked ==
  ctxDoneAt = "gap"
    => \A k \in 1..Len(sent) :
         /\ sent[k].msg.Type # "output_text.done"
         /\ IsContent(sent[k]) => sent[k].res # "pending"

\* The context was cancelled while serveChatCompletionSSE slept between two
\* chunks: no content event, no stop event and no sentinel is written from
\* then on.
C17_SSEGapRechecked ==
  ctxDoneAt = "sse_gap"
    => \A k \in 1..Len(written) :
         /\ ~IsStopEvent(written[k])
         /\ ~IsSentinel(written[k])
         /\ IsContentEvent(written[k]) => written[k].res # "pending"

\* C17: in both front ends the cancellation is checked again when a sleep
\* between two chunks ends, the sleep after the last content chunk too: a
\* stream cancelled during such a sleep emits no further content chunk and
\* no success terminal (done chunk, stop event, [DONE] sentinel).
C17_GapRecheckedInBoth == C17_GrpcGapRechecked /\ C17_SSEGapRechecked

\* What the SSE loop does: a cancellation during the sleep stops the stream
\* when a content chunk is still to come.
C17_SSENoContentAfterCancelledGap ==
  ctxDoneAt = "sse_gap"
    => \A k \in 1..Len(written) : IsContentEvent(written[k]) => written[k].res # "pending"

\* The error the call of one of the two RPCs ends with.
CallError == IF kind = "stream" THEN loc.err ELSE ret.err

\* C18: ChatCompletion and ChatCompletionStream decide on error injection
\* exactly once per call and before any other step (pre-delay, output
\* synthesis, cancellation check, Send): with a rate strictly between 0 and
\* 1 the first draw of the call is the one of the decision and no later
\* draw decides again; an injected failure is returned even when the
\* context is already cancelled, with nothing synthesized, no sleep and no
\* content chunk; and a call that was not injected at its beginning, or
\* that has sent a content chunk, never ends with an injected failure.
C18_InjectionDecidedFirstAndOnce ==
  (kind \in {"unary", "stream"} /\ pc # "start")
    => /\ (cfg.ErrorRate > 0 /\ cfg.ErrorRate < 100)
            => draws # << >> /\ draws[1].fn = "Float64"
       /\ Cardinality({k \in 1..Len(draws) : draws[k].fn = "Float64"})
            <= (IF cfg.ErrorRate > 0 /\ cfg.ErrorRate < 100 THEN 1 ELSE 0)
                 + (IF cfg.Randomize THEN 1 ELSE 0)
       /\ InjectionTriggered
            => /\ CallError \in StatusCodes
               /\ pc \in {"send_failed", "returned"}
               /\ loc.out = << >> /\ loc.prompt = << >>
               /\ loc.sleepMs = 0 /\ now = loc.start
               /\ \A k \in 1..Len(sent) : sent[k].msg.Type = "failed"
               /\ \A k \in 2..Len(draws) : draws[k].fn = "Intn" /\ draws[k].n = 2
               /\ Len(draws) <= 2
       /\ ~InjectionTriggered => CallError \notin StatusCodes
       /\ ContentAt # {} => CallError \notin StatusCodes

C18_Witness ==
  /\ kind = "unary" /\ pc = "returned"
  /\ ctxErr = "DeadlineExceeded" /\ ctxDoneAt = "start"
  /\ cfg.ErrorRate = 50
  /\ InjectionTriggered
  /\ ret.err = "ResourceExhausted"

\* The content chunks whose Send failed.
FailedContentAt == {k \in ContentAt : sent[k].res = "SendErr"}

\* C19: when the Send of a content chunk fails, the chunk loop stops at
\* once: the call returns that Send error unchanged, and the one thing
\* passed to Send afterwards is the failed event, once, whether its own
\* Send succeeds or fails: no further content chunk, no done event, no
\* second attempt.
C19_SendFailureAbortsLoop ==
  kind = "stream"
    => \A k \in FailedContentAt :
         /\ pc \in {"send_failed", "returned"}
         /\ loc.err = "SendErr"
         /\ Len(sent) = k + 1
         /\ sent[k + 1].msg = FailedChunk("SendErr")
         /\ \A j \in 1..(k - 1) : IsContent(sent[j]) /\ sent[j].res = "nil"
         /\ pc = "send_failed" <=> sent[k + 1].res = "pending"
         /\ pc = "returned" => ret.err = "SendErr" /\ ~ret.resp.set

C19_Witness ==
  /\ StreamReturned
  /\ FailedContentAt = {3}
  /\ Len(sent) = 4
  /\ sent[4].msg.Type = "failed" /\ sent[4].res = "SendErr"
  /\ ret.err = "SendErr"

\* Every Send of a content or done chunk so far has succeeded or is pending.
NoStreamSendFailed ==
  \A k \in 1..Len(sent) : sent[k].msg.Type # "failed" => sent[k].res # "SendErr"

\* C20: a call of ChatCompletion or ChatCompletionStream that stops because
\* the context is done returns the context's own error, Canceled or
\* DeadlineExceeded as the context has it, never an injected class or
\* another error; and ChatCompletion, when the context is done at the end of
\* its sleep, returns that error and no response, also when the sleep
\* lasted for the whole delay.
C20_ContextErrorsVerbatim ==
  (kind \in {"unary", "stream"} /\ pc = "returned")
    => /\ ret.err \in ContextErrors => ret.err = ctxErr /\ ~ret.resp.set
       /\ (kind = "stream" /\ ~InjectionTriggered /\ NoStreamSendFailed /\ ret.err # "nil")
            => ret.err \in ContextErrors /\ ret.err = ctxErr
       /\ (kind = "unary" /\ ~InjectionTriggered /\ ctxErr # "nil")
            => ret.err = ctxErr /\ ~ret.resp.set

C20_Witness ==
  /\ kind = "unary" /\ pc = "returned"
  /\ ~InjectionTriggered
  /\ ctxDoneAt = "compute_delay"
  /\ loc.sleepMs > 0
  /\ now = loc.start + loc.sleepMs
  /\ ret.err = "DeadlineExceeded"
  /\ ~ret.resp.set

\* C21: a ChatCompletionStream call that passes error injection and whose
\* context is cancelled before or during the pre-delay (a context already
\* cancelled when the call starts and a pre-delay of zero included) never
\* passes a content chunk or a done event to Send, and returns the
\* context's error.
C21_CancelBeforeFirstChunk ==
  (kind = "stream" /\ pc # "start" /\ ~InjectionTriggered
     /\ ctxDoneAt \in {"start", "pre_delay"})
    => /\ ContentAt = {}
       /\ \A k \in 1..Len(sent) : sent[k].msg.Type # "output_text.done"
       /\ pc \in {"pre_delay", "send_failed", "returned"}
       /\ pc # "pre_delay" => loc.err = ctxErr /\ loc.err \in ContextErrors
       /\ pc = "returned" => ret.err = ctxErr /\ ~ret.resp.set

C21_Witness ==
  /\ StreamReturned
  /\ ~InjectionTriggered
  /\ ctxDoneAt = "start"
  /\ PreDelay(cfg, 0, 0) = 0 /\ loc.sleepMs = 0
  /\ loc.out # << >>
  /\ ContentAt = {}
  /\ ret.err = "Canceled"

\* The same for a cancellation during a pre-delay that is not zero.
C21_DuringPreDelay ==
  /\ StreamReturned
  /\ ctxDoneAt = "pre_delay"
  /\ loc.sleepMs > 0
  /\ ContentAt = {}
  /\ ret.err = ctxErr

\* The chunk size the SSE request asks for: the chunk_size parameter when
\* there is one, else the configured size.
RequestedSSEChunkSize == IF query.chunk_size.has THEN query.chunk_size.v ELSE cfg.ChunkSize

\* ChatCompletionStream with a configured chunk size of zero or less, and
\* no randomization: the output is sliced by 12.
C22_GrpcHalf ==
  (kind = "stream" /\ ~cfg.Randomize /\ cfg.ChunkSize <= 0 /\ loc.out # << >>)
    => loc.chunkSize = 12

\* The SSE stream with a requested and a configured chunk size of zero or
\* less, and no randomization: the output is sliced by 12 and the handler
\* does not panic.
C22_SSEHalf ==
  (kind = "sse" /\ ~cfg.Randomize /\ RequestedSSEChunkSize <= 0 /\ cfg.ChunkSize <= 0
     /\ loc.out # << >>)
    => /\ loc.chunkSize = 12
       /\ ret.err # "panic"

\* C22: with randomization off, a configured or requested chunk size of
\* zero or less makes both the gRPC stream and the SSE stream slice the
\* output by 12 and complete normally.
C22_NonPositiveChunkSizeIsTwelve == C22_GrpcHalf /\ C22_SSEHalf

\* What the SSE stream does with a chunk size of exactly zero.
C22_SSEZeroIsTwelve ==
  (kind = "sse" /\ ~cfg.Randomize /\ RequestedSSEChunkSize = 0 /\ cfg.ChunkSize = 0
     /\ loc.out # << >>)
    => /\ loc.chunkSize = 12
       /\ ret.err # "panic"

\* The longest prefix of the output whose estimate is compared with the
\* next one's.
ApproxPrefix == 24

\* n = ceil(r / 4): the least n with 4 * n >= r.
C23_IsCeilOfQuarter(n, r) == n >= 0 /\ 4 * n >= r /\ 4 * (n - 1) < r

\* C23: ApproxTokens(text) is ceil(runeLength(text) / 4), it is 0 for the
\* empty text, and it does not decrease when the text gets longer in runes:
\* checked on the prompt and the output of every call of the synthesizer,
\* and on the prefixes of the output.
C23_ApproxTokensIsCeil ==
  Synthesized
    => /\ C23_IsCeilOfQuarter(loc.pt, RuneCount(loc.prompt))
       /\ C23_IsCeilOfQuarter(loc.ct, RuneCount(loc.out))
       /\ ApproxTokens(<< >>) = 0
       /\ loc.prompt = << >> => loc.pt = 0
       /\ RuneCount(loc.prompt) <= RuneCount(loc.out) => loc.pt <= loc.ct
       /\ \A n \in 0..(ApproxPrefix - 1) :
            LET a == SubSeq(loc.out, 1, n)
                b == SubSeq(loc.out, 1, n + 1)
            IN n < Len(loc.out)
                 => /\ C23_IsCeilOfQuarter(ApproxTokens(b), RuneCount(b))
                    /\ RuneCount(a) <= RuneCount(b) => ApproxTokens(a) <= ApproxTokens(b)
                    /\ RuneCount(b) <= RuneCount(a) => ApproxTokens(b) <= ApproxTokens(a)

C23_Witness ==
  /\ Synthesized
  /\ loc.prompt = EAcute /\ loc.pt = 1
  /\ cfg.EchoPrompt
  /\ RuneCount(loc.out) < Len(loc.out)
  /\ RuneCount(loc.out) % 4 = 1
  /\ loc.ct = (RuneCount(loc.out) + 3) \div 4

\* The token budget the request asks for: MaxTokens of the gRPC request,
\* the max_tokens parameter of the SSE request (the configured default when
\* there is none).
RequestedBudget ==
  IF kind = "sse"
    THEN (IF query.max_tokens.has THEN query.max_tokens.v ELSE cfg.DefaultTokens)
    ELSE req.MaxTokens

\* The output synthesized with the configured default budget, 128 tokens
\* when the knob is not set.
C24_DefaultOutput ==
  BuildOutput(loc.prompt, IF cfg.DefaultTokens = 0 THEN 128 ELSE cfg.DefaultTokens,
              cfg.EchoPrompt, cfg.StrictTokenMode, cfg.DebugOutputChars, cfg.MaxOutputChars)

\* ChatCompletionStream with a requested budget of zero or less and no
\* randomization: the output is the one of the default budget.
C24_GrpcDefaultBudget ==
  (kind = "stream" /\ ~cfg.Randomize /\ RequestedBudget <= 0 /\ loc.out # << >>)
    => loc.out = C24_DefaultOutput

\* C24: in both front ends a requested budget of zero or less, with
\* randomization off, gives the output of the configured default budget
\* (128 tokens when not set), so the gRPC stream and the SSE stream give
\* outputs of the same length for the same configuration, also with an
\* explicit max_tokens=0.
C24_DefaultBudgetInBoth ==
  (kind \in {"stream", "sse"} /\ ~cfg.Randomize /\ RequestedBudget <= 0 /\ loc.out # << >>)
    => Len(loc.out) = Len(C24_DefaultOutput)

\* With an error rate of 1 or more ChatCompletionStream passes no content
\* chunk and no done chunk to Send.
C25_GrpcFailsBeforeOutput ==
  (kind = "stream" /\ cfg.ErrorRate >= 100)
    => \A k \in 1..Len(sent) : sent[k].msg.Type = "failed"

\* C25: the SSE stream goes through error injection as the gRPC stream
\* does: with an error rate of 1 or more it writes no content delta event
\* and no finish_reason "stop" event.
C25_SSEFailsBeforeOutput ==
  (kind = "sse" /\ cfg.ErrorRate >= 100)
    => \A k \in 1..Len(written) :
         ~IsContentEvent(written[k]) /\ ~IsStopEvent(written[k])

\* The chunk size before randomization: the chunk_size parameter of the SSE
\* request when there is one that is not 0, else the configured size.
ConfiguredChunkSize ==
  IF kind = "sse" /\ query.chunk_size.has /\ query.chunk_size.v # 0
    THEN query.chunk_size.v ELSE cfg.ChunkSize

\* How far the effective chunk size of the stream is from the size before
\* randomization.
ChunkSizeMoved ==
  IF loc.chunkSize >= ConfiguredChunkSize
    THEN loc.chunkSize - ConfiguredChunkSize ELSE ConfiguredChunkSize - loc.chunkSize

\* A stream (of either front end) with randomization on and a chunk size of
\* 1 or more, once its effective chunk size is chosen.
RandomizedChunking ==
  /\ kind \in {"stream", "sse"}
  /\ cfg.Randomize
  /\ ConfiguredChunkSize >= 1
  /\ loc.out # << >>

C26_SevenBecomesNine ==
  RandomizedChunking /\ kind = "stream" /\ ConfiguredChunkSize = 7 /\ loc.chunkSize = 9

\* pickTargetTokens has returned in a call of its own.
Picked == kind = "pick" /\ pc = "returned"

\* M: maxTokens when positive, 128 otherwise.
C27_M == IF loc.maxTokens > 0 THEN loc.maxTokens ELSE 128

\* The bucket the first draw r (in hundredths) selects, as its bounds in
\* hundredths of M.  The probabilities are 0.58, 0.34, 0.07 and 0.01; a
\* prompt of more than 600 runes moves them to 0.52, 0.38, 0.09, 0.01, and
\* one of more than 1200 runes to 0.48, 0.40, 0.10, 0.02.
C27_Bucket ==
  LET r == draws[1].v
      pShort == IF loc.promptRunes > 1200 THEN 48 ELSE IF loc.promptRunes > 600 THEN 52 ELSE 58
      pNormal == IF loc.promptRunes > 1200 THEN 40 ELSE IF loc.promptRunes > 600 THEN 38 ELSE 34
      pLong == IF loc.promptRunes > 1200 THEN 10 ELSE IF loc.promptRunes > 600 THEN 9 ELSE 7
  IN IF r < pShort THEN [lo |-> 5, hi |-> 22]
     ELSE IF r < pShort + pNormal THEN [lo |-> 22, hi |-> 62]
     ELSE IF r < pShort + pNormal + pLong THEN [lo |-> 62, hi |-> 92]
     ELSE [lo |-> 92, hi |-> 100]

\* max(1, floor(M * lo))
C27_Low == IF (C27_M * C27_Bucket.lo) \div 100 < 1 THEN 1 ELSE (C27_M * C27_Bucket.lo) \div 100

\* max(C27_Low, floor(M * hi))
C27_High ==
  IF (C27_M * C27_Bucket.hi) \div 100 < C27_Low THEN C27_Low
  ELSE (C27_M * C27_Bucket.hi) \div 100

\* C27: pickTargetTokens returns t with 1 <= t <= M, M being maxTokens when
\* positive and 128 otherwise, and t lies within the token bounds
\* [max(1, floor(M*lo)), max(that, floor(M*hi))] of the bucket the first
\* draw selects: short 5-22%, normal 22-62%, long 62-92%, maxed 92-100%.
C27_TargetWithinBucket ==
  Picked
    => /\ 1 <= loc.effTokens /\ loc.effTokens <= C27_M
       /\ C27_Low <= loc.effTokens /\ loc.effTokens <= C27_High

C27_Witness ==
  /\ Picked
  /\ loc.maxTokens = 50 /\ loc.promptRunes = 1201
  /\ draws[1].v = 50
  /\ loc.effTokens = 31

\* A budget of 1: the bounds of every bucket fall on 1.
C27_BudgetOfOne ==
  Picked /\ loc.maxTokens = 1 /\ draws[1].v = 0 /\ loc.effTokens = 1 /\ Len(draws) = 1

\* Of the timing knobs only the stream-delay bounds are set, so the sleep
\* after a chunk is the jitter component alone.
GapKnobsOnly ==
  /\ cfg.BaseDelayMs = 0 /\ cfg.JitterMs = 0
  /\ cfg.TTFTMinMs = 0 /\ cfg.TTFTMaxMs = 0
  /\ cfg.TokensPerSec = 0 /\ cfg.PerTokenDelayMs = 0

\* A content chunk of the stream was sent (or written) without an error,
\* so the delay after it was computed: loc.sleepMs is that delay, or 0 when
\* there was nothing to sleep for.
GapTaken ==
  \/ kind = "stream" /\ \E k \in 1..Len(sent) : IsContent(sent[k]) /\ sent[k].res = "nil"
  \/ kind = "sse" /\ \E k \in 1..Len(written) :
                       IsContentEvent(written[k]) /\ written[k].res = "nil"

\* C28: with stream-delay bounds min >= 0 and max >= 0 the jitter component
\* d of the delay after a chunk is within the bounds once they are put in
\* order: d >= min whenever min > 0, d <= max(min, max), and d = 0 when both
\* are 0; in sleepStreamGap and sleepSSEStreamGap alike.
C28_JitterWithinBounds ==
  (GapTaken /\ GapKnobsOnly /\ cfg.StreamDelayMinMs >= 0 /\ cfg.StreamDelayMaxMs >= 0)
    => /\ cfg.StreamDelayMinMs > 0 => loc.sleepMs >= cfg.StreamDelayMinMs
       /\ loc.sleepMs <= (IF cfg.StreamDelayMaxMs < cfg.StreamDelayMinMs
                            THEN cfg.StreamDelayMinMs ELSE cfg.StreamDelayMaxMs)
       /\ (cfg.StreamDelayMinMs = 0 /\ cfg.StreamDelayMaxMs = 0) => loc.sleepMs = 0

\* What the code does: the bounds count only when max is above 0.
C28_JitterWhenMaxSet ==
  (GapTaken /\ GapKnobsOnly /\ cfg.StreamDelayMinMs >= 0 /\ cfg.StreamDelayMaxMs >= 0)
    => IF cfg.StreamDelayMaxMs > 0
         THEN /\ loc.sleepMs >= cfg.StreamDelayMinMs
              /\ loc.sleepMs <= (IF cfg.StreamDelayMaxMs < cfg.StreamDelayMinMs
                                   THEN cfg.StreamDelayMinMs ELSE cfg.StreamDelayMaxMs)
         ELSE loc.sleepMs = 0

\* The delays a call computes are all zero or more, whatever its draws: the
\* pre-delay of the stream, the compute delay of the unary call for the
\* completion tokens of its output, and the delay after the first chunk of
\* a stream of either front end.
DelaysNonNegative ==
  /\ kind = "stream"
       => \A j \in RandIntn(JitterDrawN(cfg)) : \A f \in RandIntn(TTFTDrawN(cfg)) :
            PreDelay(cfg, j, f) >= 0
  /\ (kind = "unary" /\ loc.out # << >>)
       => \A j \in RandIntn(JitterDrawN(cfg)) : \A f \in RandIntn(TTFTDrawN(cfg)) :
            ComputeMs(cfg, loc.ct, j, f) >= 0
  /\ (kind = "stream" /\ loc.out # << >>)
       => \A v \in RandIntn(GapDrawN(cfg)) :
            sleepStreamGap(cfg, Slice(loc.out, 0, loc.chunkSize), v) >= 0
  /\ (kind = "sse" /\ loc.out # << >> /\ loc.chunkSize > 0)
       => \A v \in RandIntn(GapDrawN(cfg)) :
            sleepSSEStreamGap(cfg, Slice(loc.out, 0, loc.chunkSize), v) >= 0

\* The call has passed its first step without an injected failure (and,
\* for the SSE handler, without a missing prompt).
DelaysComputed ==
  /\ kind \in {"unary", "stream", "sse"}
  /\ pc # "start"
  /\ ~InjectionTriggered
  /\ ret.err # "400"

\* C29: for every configuration, negative values of the timing knobs
\* included, and every draw, each delay the code computes (pre-delay of
\* the stream, compute delay of the unary call, delay after a chunk) is a
\* number of milliseconds that is zero or more.
C29_DelaysNonNegative == DelaysComputed => DelaysNonNegative

\* The timing knobs are all zero or more.
NoNegativeTimingKnob ==
  /\ cfg.BaseDelayMs >= 0 /\ cfg.JitterMs >= 0
  /\ cfg.TTFTMinMs >= 0 /\ cfg.TTFTMaxMs >= 0
  /\ cfg.StreamDelayMinMs >= 0 /\ cfg.StreamDelayMaxMs >= 0
  /\ cfg.TokensPerSec >= 0 /\ cfg.PerTokenDelayMs >= 0

\* What holds: no delay is negative when no timing knob is.
C29_NonNegativeKnobs == (DelaysComputed /\ NoNegativeTimingKnob) => DelaysNonNegative

\* The chunks of the stream's output, by the offset they start at.
ChunkOffsets == {i \in 0..(Len(loc.out) - 1) : i % loc.chunkSize = 0}

\* The delay after the chunk text with the jitter jit: jit, plus
\* max(1, tokens) * max(1, 1000 div tokensPerSec) when tokensPerSec > 0,
\* plus max(1, tokens) * perTokenDelayMs when perTokenDelayMs > 0, the
\* tokens being ceil(runes / 4).
C30_Pacing(text, jit) ==
  LET tokens == IF text = << >> THEN 0 ELSE (RuneCount(text) + 3) \div 4
      paced == IF tokens < 1 THEN 1 ELSE tokens
  IN jit
     + (IF cfg.TokensPerSec > 0
          THEN paced * (IF 1000 \div cfg.TokensPerSec < 1 THEN 1 ELSE 1000 \div cfg.TokensPerSec)
          ELSE 0)
     + (IF cfg.PerTokenDelayMs > 0 THEN paced * cfg.PerTokenDelayMs ELSE 0)

\* The jitter of the draw v: min + v when max > 0, else 0.
C30_Jitter(v) == IF cfg.StreamDelayMaxMs > 0 THEN cfg.StreamDelayMinMs + v ELSE 0

\* C30: sleepSSEStreamGap computes the delay sleepStreamGap computes, for
\* every configuration, every chunk of the output and the same draw: the
\* jitter plus the generation pacing plus the per-token overhead; and the
\* time a stream of one front end sleeps for after a chunk is the one the
\* other front end's function gives.
C30_SSEPacingIsGrpcPacing ==
  (kind \in {"stream", "sse"} /\ loc.out # << >> /\ loc.chunkSize > 0)
    => /\ \A i \in ChunkOffsets : \A v \in RandIntn(GapDrawN(cfg)) :
            LET delta == Slice(loc.out, i, loc.chunkSize)
            IN /\ sleepSSEStreamGap(cfg, delta, v) = sleepStreamGap(cfg, delta, v)
               /\ sleepStreamGap(cfg, delta, v) = C30_Pacing(delta, C30_Jitter(v))
       /\ pc = "sse_gap"
            => \E v \in RandIntn(GapDrawN(cfg)) :
                 loc.sleepMs = sleepStreamGap(cfg, Slice(loc.out, loc.i, loc.chunkSize), v)
       /\ pc = "gap"
            => \E v \in RandIntn(GapDrawN(cfg)) :
                 loc.sleepMs = sleepSSEStreamGap(cfg, Slice(loc.out, loc.i, loc.chunkSize), v)

C30_Witness ==
  /\ kind = "sse" /\ pc = "sse_gap"
  /\ cfg.TokensPerSec = 2000 /\ cfg.PerTokenDelayMs = 1
  /\ loc.i > 0
  /\ loc.sleepMs = 2

\* A stream sleeping for a jitter drawn between its bounds.
C30_JitterDrawn ==
  /\ kind = "sse" /\ pc = "sse_gap"
  /\ cfg.StreamDelayMinMs = 1 /\ cfg.StreamDelayMaxMs = 2
  /\ loc.sleepMs = 2

\* The callers inside the generator: between Lock and the deferred Unlock.
InsideGenerator == {c \in Callers : pc[c] \in {"draw", "unlock"}}

\* The safety half of C31: at most one caller is inside the generator, and
\* it is the one that holds rngMu; the mutex is never held by a caller that
\* sleeps, waits in Send or runs outside the generator; the holder can
\* always take its next step, so some step is possible in every state; a
\* returned RandIntn(n) gave a value in [0, n) for n > 0, and 0 without a
\* lock for n <= 0.
C31_GeneratorSafety ==
  kind = "rng"
    => /\ Cardinality(InsideGenerator) <= 1
       /\ InsideGenerator = (IF rngMu = 0 THEN {} ELSE {rngMu})
       /\ \A c \in Callers : pc[c] \in {"run", "lock", "sleep", "send"} => rngMu # c
       /\ rngMu # 0 => ENABLED (Draw(rngMu) \/ Unlock(rngMu))
       /\ ENABLED RngNext
       /\ \A c \in Callers :
            (pc[c] \in {"run", "unlock"} /\ loc[c].fn = "Intn")
              => IF loc[c].n > 0
                   THEN loc[c].v >= 0 /\ loc[c].v < loc[c].n /\ loc[c].locked
                   ELSE loc[c].v = 0 /\ ~loc[c].locked /\ pc[c] = "run"

\* C31: under every interleaving of concurrent calls the generator is used
\* by one caller at a time, its mutex is released on every path and never
\* held during a sleep or a Send, no deadlock is reachable, no caller waits
\* for the generator for ever, and RandIntn(n) returns a value in [0, n)
\* for n > 0 and 0 without the lock for n <= 0.
C31_GeneratorSerialized ==
  /\ []C31_GeneratorSafety
  /\ \A c \in Callers : (kind = "rng" /\ pc[c] = "lock") ~> (pc[c] = "draw")
  /\ \A c \in Callers : (kind = "rng" /\ rngMu = c) ~> (rngMu # c)

\* One caller is inside the generator while another waits in Lock and has
\* waited since the first one slept.
C31_Witness ==
  /\ kind = "rng"
  /\ rngMu = 1 /\ pc[1] = "unlock" /\ loc[1].fn = "Intn" /\ loc[1].n = 2 /\ loc[1].v = 1
  /\ pc[2] = "lock" /\ loc[2].fn = "Float64"

\* The timers that are armed: made, and neither fired nor stopped.
ArmedTimers == {k \in 1..Len(loc.timers) : loc.timers[k].state = "armed"}

\* The last call of sleepWithContext has returned.
SleepReturned == kind = "sleep" /\ pc = "idle" /\ loc.calls > 0

\* The moment the last call had to return at: its entry for d <= 0, else
\* the end of its duration, or the cancellation when that is earlier (the
\* entry itself when the context was done before the call).
SleepDue ==
  IF loc.d <= 0 THEN loc.entered
  ELSE IF loc.doneAt >= 0 /\ loc.doneAt < loc.entered + loc.d
         THEN (IF loc.doneAt > loc.entered THEN loc.doneAt ELSE loc.entered)
         ELSE loc.entered + loc.d

\* C32: sleepWithContext returns when its duration has elapsed or the
\* context is done, whichever is first; with d <= 0 it returns at once and
\* arms no timer; the timer it armed is stopped on both ways out, so none
\* is armed after a return and at most one is armed at any time.
C32_SleepReturnsAndStopsTimer ==
  kind = "sleep"
    => /\ Cardinality(ArmedTimers) <= 1
       /\ pc = "idle" => ArmedTimers = {}
       /\ ArmedTimers # {} => pc \in {"select", "stop"} /\ ArmedTimers = {Len(loc.timers)}
       /\ SleepReturned
            => /\ loc.returnedAt = SleepDue
               /\ loc.d <= 0 => loc.woke = ""
               /\ loc.woke = "ctx" => ctxErr # "nil" /\ loc.doneAt <= loc.returnedAt
               /\ loc.woke = "timer" => loc.returnedAt = loc.entered + loc.d
       /\ Len(loc.timers) = loc.positive

\* A sleep of two ticks was cut short by a cancellation after one tick, its
\* timer stopped before it fired, after an earlier sleep ran to its end.
C32_Witness ==
  /\ SleepReturned
  /\ loc.calls = 2 /\ loc.d = 2 /\ loc.woke = "ctx"
  /\ loc.returnedAt = loc.entered + 1
  /\ Len(loc.timers) = 2
  /\ loc.timers[1].state = "fired" /\ loc.timers[2].state = "stopped"

\* What a call with randomization off synthesizes from its request and its
\* configuration, and the prompt it counts the tokens of.
C33_Prompt == buildPromptForTokens(req)

C33_Output ==
  BuildOutput(C33_Prompt, RequestTokens(cfg, req), cfg.EchoPrompt, cfg.StrictTokenMode,
              cfg.DebugOutputChars, cfg.MaxOutputChars)

\* C33: with randomization off, a ChatCompletion that returns a response
\* and a ChatCompletionStream that returns nil agree for the same request
\* and configuration: the OutputText of the one and the concatenation of
\* the content chunks of the other are the same function of the request and
\* the configuration, and so are the prompt, completion and total token
\* counts of the response and of the done event, both with finish reason
\* "stop".
C33_UnaryAgreesWithStream ==
  ~cfg.Randomize
    => /\ (kind = "unary" /\ pc = "returned" /\ ret.err = "nil")
            => /\ ret.resp.set
               /\ ret.resp.OutputText = C33_Output
               /\ ret.resp.FinishReason = "stop"
               /\ ret.resp.PromptTokens = ApproxTokens(C33_Prompt)
               /\ ret.resp.CompletionTokens = ApproxTokens(C33_Output)
               /\ ret.resp.TotalTokens = ApproxTokens(C33_Prompt) + ApproxTokens(C33_Output)
       /\ (StreamReturned /\ ret.err = "nil")
            => /\ sent # << >>
               /\ ConcatText(SelectSeq(sent, IsContent)) = C33_Output
               /\ LET done == sent[Len(sent)].msg
                  IN /\ done.Type = "output_text.done"
                     /\ done.FinishReason = "stop"
                     /\ done.PromptTokens = ApproxTokens(C33_Prompt)
                     /\ done.CompletionTokens = ApproxTokens(C33_Output)
                     /\ done.TotalTokens = ApproxTokens(C33_Prompt) + ApproxTokens(C33_Output)

\* A unary call with a system prompt, a context and a user prompt, and the
\* default budget, has returned its response: its text is longer than a
\* chunk of the stream and both token counts are positive.
C33_Witness ==
  /\ kind = "unary" /\ pc = "returned" /\ ret.err = "nil" /\ ret.resp.set
  /\ ~cfg.Randomize /\ req = ReqFull
  /\ Len(ret.resp.OutputText) > StreamChunkSize(cfg)
  /\ ret.resp.PromptTokens > 0 /\ ret.resp.CompletionTokens > 0

\* The stream has synthesized its output: the chunk size is set by the same
\* step, and is never 0 afterwards.
C34_Generated == kind = "stream" /\ loc.chunkSize # 0

\* C34: BuildOutput never returns the empty string, whatever the prompt,
\* the budget and the knobs (a positive, zero or negative MaxOutputChars);
\* so a ChatCompletionStream call that has synthesized its output enters
\* the chunk loop and runs its check of the context: the first event it
\* passes to Send is a content chunk of at least one byte, or the failed
\* event of a context that the check found done, never the done event; and
\* a call that is neither cancelled nor failed by Send sends at least one
\* content chunk before its done event.  The unary response's text is not
\* empty either.
C34_OutputNeverEmpty ==
  /\ C34_Generated
       => /\ Len(loc.out) >= 1 /\ RuneCount(loc.out) >= 1 /\ loc.ct >= 1
          /\ loc.out = BuildOutput(loc.prompt, loc.effTokens, cfg.EchoPrompt,
                                   cfg.StrictTokenMode, cfg.DebugOutputChars,
                                   cfg.MaxOutputChars)
          /\ sent # << >>
          /\ \/ IsContent(sent[1]) /\ Len(sent[1].msg.Text) >= 1
             \/ /\ sent[1].msg.Type = "failed"
                /\ loc.err = ctxErr /\ loc.err \in ContextErrors
          /\ \A k \in 1..Len(sent) :
               sent[k].msg.Type = "output_text.done" => k >= 2 /\ IsContent(sent[1])
  /\ (StreamReturned /\ ~InjectionTriggered /\ ctxErr = "nil" /\ NoStreamSendFailed)
       => /\ C34_Generated
          /\ Len(sent) >= 2
          /\ IsContent(sent[1])
          /\ sent[Len(sent)].msg.Type = "output_text.done"
  /\ (kind = "unary" /\ pc = "returned" /\ ret.err = "nil")
       => Len(ret.resp.OutputText) >= 1 /\ ret.resp.CompletionTokens >= 1

\* The shortest output there is, one byte under a MaxOutputChars of 1, was
\* streamed as one content chunk followed by the done event.
C34_Witness ==
  /\ StreamReturned /\ ret.err = "nil" /\ ctxErr = "nil"
  /\ cfg.MaxOutputChars = 1
  /\ Len(loc.out) = 1
  /\ Len(sent) = 2 /\ IsContent(sent[1]) /\ sent[2].msg.Type = "output_text.done"

\* A negative MaxOutputChars and a non-positive budget: the output is the
\* 512 bytes of the default, and the context, done before the call began,
\* was found so by the first check of the loop.
C34_CheckedOnce ==
  /\ StreamReturned /\ ~InjectionTriggered
  /\ cfg.MaxOutputChars < 0 /\ req.MaxTokens <= 0
  /\ ctxDoneAt = "start"
  /\ Len(loc.out) >= 64
  /\ Len(sent) = 1 /\ sent[1].msg.Type = "failed"

\* The same for BuildOutput on its own, over the prompts, budgets and knobs
\* of the synthesis inputs.
C34_SynthesisNeverEmpty ==
  Synthesized => Len(loc.out) >= 1 /\ RuneCount(loc.out) >= 1 /\ loc.ct >= 1

\* The cap on the output: MaxOutputChars, 4096 when it is 0 (none when it
\* is negative).
C35_Cap == IF cfg.MaxOutputChars = 0 THEN 4096 ELSE cfg.MaxOutputChars

\* ceil(min(max(4 * b, 64), C) / 4) for the effective budget b of the call.
C35_Tokens ==
  LET b == loc.effTokens
      grown == IF 4 * b < 64 THEN 64 ELSE 4 * b
      cut == IF grown > C35_Cap THEN C35_Cap ELSE grown
  IN (cut + 3) \div 4

\* The completion-token counts the call has reported: in the unary
\* response, and in the done events passed to Send.
C35_Reported ==
  (IF kind = "unary" /\ pc = "returned" /\ ret.resp.set
     THEN {ret.resp.CompletionTokens} ELSE {})
    \cup (IF kind = "stream"
            THEN {sent[k].msg.CompletionTokens :
                    k \in {j \in 1..Len(sent) : sent[j].msg.Type = "output_text.done"}}
            ELSE {})

\* C35: in strict token mode with EchoPrompt off, an effective budget
\* b >= 1 and a cap C > 0, the completion tokens that the unary response
\* and the stream's done event report are ceil(min(max(4b, 64), C) / 4):
\* b itself when 16 <= b and 4b <= C, and never more than max(b, 16).
C35_StrictCompletionTokens ==
  (kind \in {"unary", "stream"} /\ cfg.StrictTokenMode /\ ~cfg.EchoPrompt
     /\ loc.effTokens >= 1 /\ C35_Cap > 0)
    => \A ct \in C35_Reported :
         /\ ct = C35_Tokens
         /\ (16 <= loc.effTokens /\ 4 * loc.effTokens <= C35_Cap) => ct = loc.effTokens
         /\ ct <= (IF loc.effTokens > 16 THEN loc.effTokens ELSE 16)

\* A stream with a budget of 17 tokens, the configured default, under the
\* cap of 4096 has reported 17 completion tokens in its done event.
C35_Witness ==
  /\ StreamReturned /\ ret.err = "nil"
  /\ cfg.StrictTokenMode /\ ~cfg.EchoPrompt /\ cfg.MaxOutputChars = 0
  /\ loc.effTokens = 17
  /\ C35_Reported = {17}

\* A budget of 12 tokens is raised to the 64 bytes of the floor: the unary
\* response reports 16 tokens; and a cap of 66 bytes under a budget of 128
\* tokens gives 17.
C35_Floor ==
  /\ kind = "unary" /\ cfg.StrictTokenMode /\ ~cfg.EchoPrompt
  /\ loc.effTokens = 12 /\ C35_Reported = {16}

C35_Capped ==
  /\ kind = "unary" /\ cfg.StrictTokenMode /\ ~cfg.EchoPrompt
  /\ loc.effTokens = 128 /\ cfg.MaxOutputChars = 66 /\ C35_Reported = {17}

=============================================================================
